---- MODULE Spec2Model ----
(***************************************************************************)
(* A model of the interpreter: the lexer (src/src/lexer.rs), the parser    *)
(* (src/src/parser.rs) and the tree-walking evaluator (src/src/eval.rs)    *)
(* with its environment (src/src/object.rs).                               *)
(*                                                                         *)
(* The evaluator is a terminating structural recursion (environments are   *)
(* values, so a Function only holds functions created before it) and is    *)
(* modelled by recursive operators that thread the `&mut Environment` and  *)
(* a history of the nodes entered and left.  The lexer and the parser      *)
(* contain loops that need not terminate and are modelled step by step.    *)
(***************************************************************************)
EXTENDS Integers, Sequences, FiniteSets, TLC

VARIABLES
    \* ---- evaluator session (src/src/repl.rs: start) ----
    environment,    \* the Environment the caller owns across eval calls
    program,        \* the last Program handed to eval
    evaluated,      \* the Object the last eval returned
    history,        \* the nodes the last eval entered and left, in order
    inputs,         \* number of programs evaluated so far
    epc,            \* "ready" | "evaluated" | "panicked"
    \* ---- lexer run (src/src/lexer.rs) ----
    text,           \* the source text the Lexer was created from
    lexer,          \* struct Lexer: [input, ch]
    ident,          \* read_ident's local String
    conditional,    \* read_ident's argument: "is_letter" | "is_digit"
    tokens,         \* the tokens next_token has returned before EOF
    lpc,            \* "next_token" | "read_ident" | "eof" | "idle"
    \* ---- parser run (src/src/parser.rs) ----
    token_input,    \* the tokens the parser's lexer is going to return
    parser,         \* struct Parser: [lexer, curr_token, peek_token, errors]
    stack,          \* the call stack below parse_program, innermost first
    ret,            \* the Result the callee that just returned produced
    parsed,         \* the statements of the Program being built
    ppc,            \* "parsing" | "done" | "idle"
    \* ---- both ----
    spin,           \* parity of the iterations of the running loop
    \* ---- printing a parsed Program (src/src/ast.rs: as_string) ----
    original        \* the Program whose as_string is the text being read

evars == <<environment, program, evaluated, history, inputs, epc>>

lvars == <<text, lexer, ident, conditional, tokens, lpc>>

pvars == <<token_input, parser, stack, ret, parsed, ppc>>

vars == <<environment, program, evaluated, history, inputs, epc,
          text, lexer, ident, conditional, tokens, lpc,
          token_input, parser, stack, ret, parsed, ppc, spin, original>>

(***************************************************************************)
(* Tokens (src/src/tokens.rs).                                             *)
(***************************************************************************)
Token(t, v) == [t |-> t, v |-> v]

Token_from(value) ==
    CASE value = "fn"     -> Token("Function", value)
      [] value = "let"    -> Token("Let", value)
      [] value = "true"   -> Token("True", value)
      [] value = "false"  -> Token("False", value)
      [] value = "if"     -> Token("If", value)
      [] value = "else"   -> Token("Else", value)
      [] value = "return" -> Token("Return", value)
      [] OTHER            -> Token("Ident", value)

(***************************************************************************)
(* AST nodes (src/src/ast.rs, enum Node).  An Option<Box<Node>> is a       *)
(* sequence of length 0 or 1.                                              *)
(***************************************************************************)
Identifier(token) == [kind |-> "Identifier", token |-> token]
IntegerLiteral(n) == [kind |-> "IntegerLiteral", value |-> n]
BooleanNode(b) == [kind |-> "Boolean", b |-> b]
FunctionLiteral(parameters, body) ==
    [kind |-> "FunctionLiteral", parameters |-> parameters, body |-> body]
PrefixExpression(operator, right) ==
    [kind |-> "PrefixExpression", operator |-> operator, right |-> right]
InfixExpression(left, operator, right) ==
    [kind |-> "InfixExpression", left |-> left, operator |-> operator, right |-> right]
IfExpression(condition, consequence, alternative) ==
    [kind |-> "IfExpression", condition |-> condition,
     consequence |-> consequence, alternative |-> alternative]
CallExpression(function, arguments) ==
    [kind |-> "CallExpression", function |-> function, arguments |-> arguments]
LetStatement(name, lvalue) == [kind |-> "LetStatement", name |-> name, lvalue |-> lvalue]
ReturnStatement(rvalue) == [kind |-> "ReturnStatement", rvalue |-> rvalue]
ExpressionStatement(expression) ==
    [kind |-> "ExpressionStatement", expression |-> expression]
BlockStatement(statements) == [kind |-> "BlockStatement", statements |-> statements]
Program(statements) == [kind |-> "Program", statements |-> statements]

None == <<>>
Some(n) == <<n>>

(***************************************************************************)
(* Runtime values (src/src/object.rs, enum Object).                        *)
(***************************************************************************)
Integer(v) == [type |-> "INTEGER", value |-> v]
Boolean(b) == [type |-> "BOOLEAN", b |-> b]
ReturnValue(o) == [type |-> "RETURN_VALUE", inner |-> o]
Error(msg) == [type |-> "ERROR", msg |-> msg]
Function(parameters, body, env) ==
    [type |-> "FUNCTION", parameters |-> parameters, body |-> body, env |-> env]
NULL == [type |-> "NULL"]
TRUE_OBJ == Boolean(TRUE)
FALSE_OBJ == Boolean(FALSE)

\* Object::name
name(o) == o.type

\* A Rust panic (integer division by zero) unwinds the whole evaluation; it
\* is carried as a marker that every caller passes on at once.
PANIC == [type |-> "PANIC"]

(***************************************************************************)
(* Environment (src/src/object.rs, struct Environment): a HashMap and an   *)
(* optional boxed outer environment, both owned by value.                  *)
(***************************************************************************)
EmptyStorage == [n \in {} |-> NULL]

Environment_new == [storage |-> EmptyStorage, outer |-> None]

Environment_new_enclosed(env) == [storage |-> EmptyStorage, outer |-> Some(env)]

\* an insert that keeps the value of a key the map already holds
insert_if_absent(storage, k, v) ==
    [n \in (DOMAIN storage) \cup {k} |-> IF n \in DOMAIN storage THEN storage[n] ELSE v]

\* HashMap::insert
insert(storage, k, v) ==
    [n \in (DOMAIN storage) \cup {k} |-> IF n = k THEN v ELSE storage[n]]

\* a lookup that stops at the local scope
Environment_get_local(env, k) ==
    IF k \in DOMAIN env.storage THEN Some(env.storage[k]) ELSE None

\* Environment::get: Some(object) as <<object>>, None as <<>>
RECURSIVE Environment_get(_, _)
Environment_get(env, k) ==
    IF k \in DOMAIN env.storage
    THEN Some(env.storage[k])
    ELSE IF env.outer # None
         THEN Environment_get(env.outer[1], k)
         ELSE None

\* a set that overwrites the binding where the lookup finds it, and
\* inserts locally only a name no scope binds
RECURSIVE Environment_set_outward(_, _, _)
Environment_set_outward(env, k, v) ==
    IF k \notin DOMAIN env.storage /\ env.outer # None
       /\ Environment_get(env.outer[1], k) # None
    THEN [env EXCEPT !.outer = Some(Environment_set_outward(env.outer[1], k, v))]
    ELSE [env EXCEPT !.storage = insert(@, k, v)]

\* Environment::set (src/src/eval/environment.rs); the Option it returns,
\* the value replaced, is not used by any caller
Environment_set(env, k, v) == [env EXCEPT !.storage = insert(@, k, v)]

(***************************************************************************)
(* Node::as_string for an identifier (the key of a binding).               *)
(***************************************************************************)
ident_as_string(node) == node.token.v

(***************************************************************************)
(* Node::as_string and Program::as_string (src/src/ast.rs).                *)
(***************************************************************************)
\* i64::to_string
to_string(n) == IF n < 0 THEN "-" \o ToString(-n) ELSE ToString(n)

\* Vec<String>::join
RECURSIVE join(_, _)
join(strs, sep) ==
    IF strs = <<>> THEN ""
    ELSE IF Len(strs) = 1 THEN strs[1]
    ELSE strs[1] \o sep \o join(Tail(strs), sep)

\* statements.iter().for_each(|st| s.push_str(&st.as_string()))
RECURSIVE as_string(_)
RECURSIVE push_strs(_, _)
push_strs(s, nodes) ==
    IF nodes = <<>> THEN s
    ELSE push_strs(s \o as_string(Head(nodes)), Tail(nodes))

as_string(node) ==
    CASE node.kind = "Identifier" -> node.token.v
      [] node.kind = "IntegerLiteral" -> to_string(node.value)
      [] node.kind = "Boolean" -> IF node.b THEN "true" ELSE "false"
      [] node.kind = "FunctionLiteral" ->
            "fn("
            \o join([i \in 1..Len(node.parameters) |-> as_string(node.parameters[i])], ", ")
            \o ") " \o as_string(node.body)
      [] node.kind = "PrefixExpression" ->
            "(" \o node.operator \o as_string(node.right) \o ")"
      [] node.kind = "InfixExpression" ->
            "(" \o as_string(node.left) \o " " \o node.operator \o " "
            \o as_string(node.right) \o ")"
      [] node.kind = "IfExpression" ->
            "if" \o as_string(node.condition) \o " " \o as_string(node.consequence)
            \o (IF node.alternative # None
                THEN "else " \o as_string(node.alternative[1])
                ELSE "")
      [] node.kind = "CallExpression" ->
            as_string(node.function) \o "("
            \o join([i \in 1..Len(node.arguments) |-> as_string(node.arguments[i])], ", ")
            \o ")"
      [] node.kind = "LetStatement" ->
            "let " \o as_string(node.name)
            \o (IF node.lvalue # None THEN " = " \o as_string(node.lvalue[1]) ELSE "")
            \o ";"
      [] node.kind = "ReturnStatement" ->
            "return"
            \o (IF node.rvalue # None THEN " " \o as_string(node.rvalue[1]) ELSE "")
            \o ";"
      [] node.kind = "ExpressionStatement" ->
            (IF node.expression # None THEN as_string(node.expression[1]) ELSE "") \o ";"
      [] node.kind = "BlockStatement" -> push_strs("", node.statements)

Program_as_string(statements) == push_strs("", statements)


(***************************************************************************)
(* The evaluator (src/src/eval.rs).  Every operator returns the Object,    *)
(* the environment as the `&mut Environment` is left, and the history of   *)
(* the nodes entered and left during the evaluation.                       *)
(***************************************************************************)
Res(obj, env, log) == [obj |-> obj, env |-> env, log |-> log]

Enter(node) == [ev |-> "enter", kind |-> node.kind]
Exit(node, obj) == [ev |-> "exit", kind |-> node.kind, obj |-> obj]
Apply(fenv, callenv) == [ev |-> "apply", fenv |-> fenv, callenv |-> callenv]
\* the end of a call, with the call environment as the body left it
Applied(callenv) == [ev |-> "applied", callenv |-> callenv]

is_error(object) == object.type = "ERROR"

Panicked(r) == r.obj.type = "PANIC"

\* derived PartialEq of Object
ObjectEq(left, right) == left.type = right.type /\ left = right

\* a truthiness for which the Integer 0 is falsy too
is_truthy_nonzero(condition) ==
    CASE condition = NULL -> FALSE
      [] ObjectEq(condition, TRUE_OBJ) -> TRUE
      [] ObjectEq(condition, FALSE_OBJ) -> FALSE
      [] condition.type = "INTEGER" -> condition.value # 0
      [] OTHER -> TRUE

is_truthy(condition) ==
    CASE condition = NULL -> FALSE
      [] ObjectEq(condition, TRUE_OBJ) -> TRUE
      [] ObjectEq(condition, FALSE_OBJ) -> FALSE
      [] OTHER -> TRUE

eval_bang_operator_expression(right) ==
    CASE ObjectEq(right, TRUE_OBJ) -> FALSE_OBJ
      [] ObjectEq(right, FALSE_OBJ) -> TRUE_OBJ
      [] right = NULL -> TRUE_OBJ
      [] OTHER -> FALSE_OBJ

eval_minus_operator_expression(right) ==
    IF right.type = "INTEGER"
    THEN Integer(-right.value)
    ELSE Error("unknown operator: -" \o name(right))

eval_prefix_expression(operator, right) ==
    CASE operator = "!" -> eval_bang_operator_expression(right)
      [] operator = "-" -> eval_minus_operator_expression(right)
      [] OTHER -> Error("unknown operator: " \o operator \o name(right))

\* An i64 is modelled at the width IntBits: TLC's own integers are narrower
\* than 64 bits.  MinInt stands for i64::MIN and MaxInt for i64::MAX.
IntBits == 16
MinInt == -(2 ^ (IntBits - 1))
MaxInt == (2 ^ (IntBits - 1)) - 1

\* a division that rounds toward minus infinity
FloorDiv(left, right) ==
    IF right > 0 THEN left \div right ELSE (-left) \div (-right)

\* i64 `/`: truncation toward zero; the divisor is not zero here
TruncDiv(left, right) ==
    LET al == IF left < 0 THEN -left ELSE left
        ar == IF right < 0 THEN -right ELSE right
        q == al \div ar
    IN IF (left < 0) = (right < 0) THEN q ELSE -q

eval_integer_infix_expression(operator, left, right) ==
    CASE operator = "+" -> Integer(left + right)
      [] operator = "-" -> Integer(left - right)
      [] operator = "*" -> Integer(left * right)
      [] operator = "/" ->
            \* "attempt to divide by zero" and, for i64::MIN / -1, "attempt
            \* to divide with overflow": both panic in every build
            IF right = 0 \/ (left = MinInt /\ right = -1)
            THEN PANIC
            ELSE Integer(TruncDiv(left, right))
      [] operator = "<" -> Boolean(left < right)
      [] operator = ">" -> Boolean(left > right)
      [] operator = "==" -> Boolean(left = right)
      [] operator = "!=" -> Boolean(left # right)
      [] OTHER -> Error("unknown operator: INTEGER " \o operator \o " INTEGER")

\* an infix evaluation that compares values of one type only
eval_infix_expression_typed(operator, left, right) ==
    CASE left.type = "INTEGER" /\ right.type = "INTEGER" ->
            eval_integer_infix_expression(operator, left.value, right.value)
      [] name(left) # name(right) ->
            Error("type mismatch: " \o name(left) \o " " \o operator
                  \o " " \o name(right))
      [] operator = "==" -> Boolean(left = right)
      [] operator = "!=" -> Boolean(left # right)
      [] OTHER ->
            Error("unknown operator: " \o name(left) \o " " \o operator
                  \o " " \o name(right))

eval_infix_expression(operator, left, right) ==
    CASE left.type = "INTEGER" /\ right.type = "INTEGER" ->
            eval_integer_infix_expression(operator, left.value, right.value)
      [] operator = "==" -> Boolean(ObjectEq(left, right))
      [] operator = "!=" -> Boolean(~ObjectEq(left, right))
      [] OTHER ->
            IF name(left) # name(right)
            THEN Error("type mismatch: " \o name(left) \o " " \o operator
                       \o " " \o name(right))
            ELSE Error("unknown operator: " \o name(left) \o " " \o operator
                       \o " " \o name(right))

eval_identifier(id, env) ==
    LET got == Environment_get(env, id)
    IN IF got # None THEN got[1] ELSE Error("identifier not found: " \o id)

unwrap_return_value(obj) ==
    IF obj.type = "RETURN_VALUE" THEN obj.inner ELSE obj

\* a binding of every parameter: Null where there is no argument
RECURSIVE zip_insert_padded(_, _, _, _)
zip_insert_padded(storage, parameters, args, i) ==
    IF i > Len(parameters)
    THEN storage
    ELSE zip_insert_padded(insert(storage, ident_as_string(parameters[i]),
                                  IF i > Len(args) THEN NULL ELSE args[i]),
                           parameters, args, i + 1)

\* parameters.iter().zip(args.iter()): insertion i of the shorter length
RECURSIVE zip_insert(_, _, _, _)
zip_insert(storage, parameters, args, i) ==
    IF i > Len(parameters) \/ i > Len(args)
    THEN storage
    ELSE zip_insert(insert(storage, ident_as_string(parameters[i]), args[i]),
                    parameters, args, i + 1)

\* a call environment with no outer: Environment::new() in the place of
\* Environment::new_enclosed(env)
create_function_env_unenclosed(parameters, args, env) ==
    [Environment_new EXCEPT !.storage = zip_insert(@, parameters, args, 1)]

create_function_env(parameters, args, env) ==
    LET enclosed_env == Environment_new_enclosed(env)
    IN [enclosed_env EXCEPT !.storage = zip_insert(@, parameters, args, 1)]

RECURSIVE eval(_, _)
RECURSIVE eval_match(_, _)
RECURSIVE eval_program_loop(_, _, _, _, _)
RECURSIVE eval_block_statement_loop(_, _, _, _, _)
RECURSIVE eval_if_expression(_, _, _, _)
RECURSIVE eval_expressions_loop(_, _, _, _, _)
RECURSIVE apply_function(_, _)
RECURSIVE eval_infix_arm(_, _)
RECURSIVE eval_call_arm(_, _)

\* for statement in statements { s = eval(..); match s { .. } }; s
eval_program_loop(statements, i, s, env, log) ==
    IF i > Len(statements)
    THEN Res(s, env, log)
    ELSE LET r == eval(statements[i], env)
         IN CASE Panicked(r) -> Res(r.obj, r.env, log \o r.log)
              [] r.obj.type = "RETURN_VALUE" -> Res(r.obj.inner, r.env, log \o r.log)
              [] r.obj.type = "ERROR" -> Res(r.obj, r.env, log \o r.log)
              [] OTHER -> eval_program_loop(statements, i + 1, r.obj, r.env,
                                            log \o r.log)

eval_program(statements, env) == eval_program_loop(statements, 1, NULL, env, <<>>)

\* a block that unwraps the ReturnValue it stops on
RECURSIVE eval_block_statement_loop_unwrapping(_, _, _, _, _)
eval_block_statement_loop_unwrapping(statements, i, s, env, log) ==
    IF i > Len(statements)
    THEN Res(s, env, log)
    ELSE LET r == eval(statements[i], env)
         IN IF Panicked(r) \/ r.obj.type = "RETURN_VALUE" \/ r.obj.type = "ERROR"
            THEN Res(unwrap_return_value(r.obj), r.env, log \o r.log)
            ELSE eval_block_statement_loop_unwrapping(statements, i + 1, r.obj,
                                                      r.env, log \o r.log)

eval_block_statement_loop(statements, i, s, env, log) ==
    IF i > Len(statements)
    THEN Res(s, env, log)
    ELSE LET r == eval(statements[i], env)
         IN IF Panicked(r) \/ r.obj.type = "RETURN_VALUE" \/ r.obj.type = "ERROR"
            THEN Res(r.obj, r.env, log \o r.log)
            ELSE eval_block_statement_loop(statements, i + 1, r.obj, r.env,
                                           log \o r.log)

eval_block_statement(statements, env) ==
    eval_block_statement_loop(statements, 1, NULL, env, <<>>)

eval_if_expression(condition, consequence, alternative, env) ==
    LET c == eval(condition, env)
    IN IF Panicked(c) \/ is_error(c.obj)
       THEN c
       ELSE IF is_truthy(c.obj)
            THEN LET r == eval(consequence, c.env)
                 IN Res(r.obj, r.env, c.log \o r.log)
            ELSE IF alternative # None
                 THEN LET r == eval(alternative[1], c.env)
                      IN Res(r.obj, r.env, c.log \o r.log)
                 ELSE Res(NULL, c.env, c.log)

\* an argument loop that goes on after an Error
RECURSIVE eval_expressions_loop_all(_, _, _, _, _)
eval_expressions_loop_all(expressions, i, result, env, log) ==
    IF i > Len(expressions)
    THEN [objs |-> result, env |-> env, log |-> log, panicked |-> FALSE]
    ELSE LET evaluated_ == eval(expressions[i], env)
         IN IF Panicked(evaluated_)
            THEN [objs |-> <<>>, env |-> evaluated_.env,
                  log |-> log \o evaluated_.log, panicked |-> TRUE]
            ELSE eval_expressions_loop_all(expressions, i + 1,
                                           Append(result, evaluated_.obj),
                                           evaluated_.env, log \o evaluated_.log)

\* an argument loop that returns the values before the Error with it
RECURSIVE eval_expressions_loop_keeping(_, _, _, _, _)
eval_expressions_loop_keeping(expressions, i, result, env, log) ==
    IF i > Len(expressions)
    THEN [objs |-> result, env |-> env, log |-> log, panicked |-> FALSE]
    ELSE LET evaluated_ == eval(expressions[i], env)
         IN IF Panicked(evaluated_)
            THEN [objs |-> <<>>, env |-> evaluated_.env,
                  log |-> log \o evaluated_.log, panicked |-> TRUE]
            ELSE IF is_error(evaluated_.obj)
                 THEN [objs |-> Append(result, evaluated_.obj), env |-> evaluated_.env,
                       log |-> log \o evaluated_.log, panicked |-> FALSE]
                 ELSE eval_expressions_loop_keeping(expressions, i + 1,
                                                    Append(result, evaluated_.obj),
                                                    evaluated_.env,
                                                    log \o evaluated_.log)

\* the Vec<Object> comes back in .objs; .panicked when an element panicked
eval_expressions_loop(expressions, i, result, env, log) ==
    IF i > Len(expressions)
    THEN [objs |-> result, env |-> env, log |-> log, panicked |-> FALSE]
    ELSE LET evaluated_ == eval(expressions[i], env)
         IN IF Panicked(evaluated_)
            THEN [objs |-> <<>>, env |-> evaluated_.env,
                  log |-> log \o evaluated_.log, panicked |-> TRUE]
            ELSE IF is_error(evaluated_.obj)
                 THEN [objs |-> <<evaluated_.obj>>, env |-> evaluated_.env,
                       log |-> log \o evaluated_.log, panicked |-> FALSE]
                 ELSE eval_expressions_loop(expressions, i + 1,
                                            Append(result, evaluated_.obj),
                                            evaluated_.env, log \o evaluated_.log)

eval_expressions(expressions, env) ==
    eval_expressions_loop(expressions, 1, <<>>, env, <<>>)

\* the extended environment is dropped when the call returns: only the
\* Object and the history come back
apply_function(function, args) ==
    IF function.type = "FUNCTION"
    THEN LET extended_env == create_function_env(function.parameters, args,
                                                 function.env)
             evaluated_ == eval(function.body, extended_env)
         IN [obj |-> unwrap_return_value(evaluated_.obj),
             log |-> <<Apply(function.env, extended_env)>> \o evaluated_.log
                     \o <<Applied(evaluated_.env)>>]
    ELSE [obj |-> Error("not a function: " \o name(function)), log |-> <<>>]

\* an InfixExpression arm that evaluates the left operand first
RECURSIVE eval_infix_arm_left_first(_, _)
eval_infix_arm_left_first(node, env) ==
    LET left == eval(node.left, env)
    IN IF Panicked(left) \/ is_error(left.obj)
       THEN left
       ELSE LET right == eval(node.right, left.env)
            IN IF Panicked(right) \/ is_error(right.obj)
               THEN Res(right.obj, right.env, left.log \o right.log)
               ELSE Res(eval_infix_expression(node.operator, left.obj, right.obj),
                        right.env, left.log \o right.log)

\* the InfixExpression arm of eval's match
eval_infix_arm(node, env) ==
    LET right == eval(node.right, env)
    IN IF Panicked(right) \/ is_error(right.obj)
       THEN right
       ELSE LET left == eval(node.left, right.env)
            IN IF Panicked(left) \/ is_error(left.obj)
               THEN Res(left.obj, left.env, right.log \o left.log)
               ELSE Res(eval_infix_expression(node.operator, left.obj, right.obj),
                        left.env, right.log \o left.log)

\* a CallExpression arm that binds the parameters in the caller's
\* environment and evaluates the body there
RECURSIVE eval_call_arm_in_caller(_, _)
eval_call_arm_in_caller(node, env) ==
    LET function == eval(node.function, env)
    IN IF Panicked(function) \/ is_error(function.obj)
       THEN function
       ELSE LET args == eval_expressions(node.arguments, function.env)
                flog == function.log \o args.log
            IN IF args.panicked
               THEN Res(PANIC, args.env, flog)
               ELSE IF Len(args.objs) > 0 /\ is_error(args.objs[1])
                    THEN Res(args.objs[1], args.env, flog)
                    ELSE IF function.obj.type # "FUNCTION"
                         THEN Res(Error("not a function: " \o name(function.obj)),
                                  args.env, flog)
                         ELSE LET shared ==
                                      [args.env EXCEPT !.storage =
                                          zip_insert(@, function.obj.parameters,
                                                     args.objs, 1)]
                                  evaluated_ == eval(function.obj.body, shared)
                              IN Res(unwrap_return_value(evaluated_.obj),
                                     evaluated_.env, flog \o evaluated_.log)

\* the CallExpression arm of eval's match
eval_call_arm(node, env) ==
    LET function == eval(node.function, env)
    IN IF Panicked(function) \/ is_error(function.obj)
       THEN function
       ELSE LET args == eval_expressions(node.arguments, function.env)
                flog == function.log \o args.log
            IN IF args.panicked
               THEN Res(PANIC, args.env, flog)
               ELSE IF Len(args.objs) > 0 /\ is_error(args.objs[1])
                    THEN Res(args.objs[1], args.env, flog)
                    ELSE LET applied == apply_function(function.obj, args.objs)
                         IN Res(applied.obj, args.env, flog \o applied.log)

eval_match(node, env) ==
    CASE node.kind = "Program" -> eval_program(node.statements, env)
      [] node.kind = "IntegerLiteral" -> Res(Integer(node.value), env, <<>>)
      [] node.kind = "Boolean" ->
            Res(IF node.b THEN TRUE_OBJ ELSE FALSE_OBJ, env, <<>>)
      [] node.kind = "ExpressionStatement" ->
            IF node.expression # None
            THEN eval(node.expression[1], env)
            ELSE Res(NULL, env, <<>>)
      [] node.kind = "PrefixExpression" ->
            LET right == eval(node.right, env)
            IN IF Panicked(right) \/ is_error(right.obj)
               THEN right
               ELSE Res(eval_prefix_expression(node.operator, right.obj),
                        right.env, right.log)
      [] node.kind = "InfixExpression" -> eval_infix_arm(node, env)
      [] node.kind = "BlockStatement" -> eval_block_statement(node.statements, env)
      [] node.kind = "IfExpression" ->
            eval_if_expression(node.condition, node.consequence,
                               node.alternative, env)
      [] node.kind = "ReturnStatement" ->
            IF node.rvalue # None
            THEN LET evaluated_ == eval(node.rvalue[1], env)
                 IN IF Panicked(evaluated_) \/ is_error(evaluated_.obj)
                    THEN evaluated_
                    ELSE LET again == eval(node.rvalue[1], evaluated_.env)
                         IN Res(IF Panicked(again) THEN PANIC
                                ELSE ReturnValue(again.obj),
                                again.env, evaluated_.log \o again.log)
            ELSE Res(ReturnValue(NULL), env, <<>>)
      [] node.kind = "LetStatement" ->
            IF node.lvalue # None
            THEN LET val == eval(node.lvalue[1], env)
                 IN IF Panicked(val) \/ is_error(val.obj)
                    THEN val
                    ELSE Res(NULL,
                             [val.env EXCEPT !.storage =
                                 insert(@, ident_as_string(node.name), val.obj)],
                             val.log)
            ELSE Res(NULL, env, <<>>)
      [] node.kind = "Identifier" -> Res(eval_identifier(node.token.v, env), env, <<>>)
      [] node.kind = "FunctionLiteral" ->
            Res(Function(node.parameters, node.body, env), env, <<>>)
      [] node.kind = "CallExpression" -> eval_call_arm(node, env)

eval(node, env) ==
    LET r == eval_match(node, env)
    IN Res(r.obj, r.env, <<Enter(node)>> \o r.log \o <<Exit(node, r.obj)>>)


(***************************************************************************)
(* The programs handed to eval.  They are ASTs: the claims about the       *)
(* evaluator quantify over program ASTs.                                   *)
(***************************************************************************)
MaxStatements == 2
MaxInputs == 2

Id(v) == Identifier(Token("Ident", v))
Num(n) == IntegerLiteral(n)
Bool(b) == BooleanNode(b)
Stmt(e) == ExpressionStatement(Some(e))
Let(v, e) == LetStatement(Id(v), Some(e))
Ret(e) == ReturnStatement(Some(e))
Block(stmts) == BlockStatement(stmts)
If(c, stmts) == IfExpression(c, BlockStatement(stmts), None)
IfElse(c, stmts, alts) ==
    IfExpression(c, BlockStatement(stmts), Some(BlockStatement(alts)))
Fn(params, stmts) ==
    FunctionLiteral([i \in 1..Len(params) |-> Id(params[i])],
                    BlockStatement(stmts))
Call(f, args) == CallExpression(f, args)
Infix(l, op, r) == InfixExpression(l, op, r)
Prefix(op, r) == PrefixExpression(op, r)

\* the inputs of the tests of src/src/eval.rs and of spec.md section 8
TestPrograms ==
    { Program(<<Stmt(Num(5))>>),
      Program(<<Stmt(Prefix("-", Num(5)))>>),
      Program(<<Stmt(Infix(Infix(Num(5), "+", Num(5)), "-", Num(10)))>>),
      Program(<<Stmt(Infix(Num(2), "*", Infix(Num(5), "+", Num(10))))>>),
      Program(<<Stmt(Infix(Infix(Num(50), "/", Num(2)), "*", Num(2)))>>),
      Program(<<Stmt(Infix(Prefix("-", Num(7)), "/", Num(2)))>>),
      Program(<<Stmt(Infix(Num(1), "/", Num(0))), Stmt(Num(5))>>),
      Program(<<Stmt(Infix(Num(1), "<", Num(2)))>>),
      Program(<<Stmt(Infix(Num(1), ">", Num(2)))>>),
      Program(<<Stmt(Infix(Num(1), "==", Num(1)))>>),
      Program(<<Stmt(Infix(Num(1), "!=", Num(1)))>>),
      Program(<<Stmt(Infix(Bool(TRUE), "==", Bool(FALSE)))>>),
      Program(<<Stmt(Infix(Bool(TRUE), "!=", Num(1)))>>),
      Program(<<Stmt(Infix(Infix(Num(1), "<", Num(2)), "==", Bool(TRUE)))>>),
      Program(<<Stmt(Prefix("!", Bool(TRUE)))>>),
      Program(<<Stmt(Prefix("!", Num(5)))>>),
      Program(<<Stmt(Prefix("!", Prefix("!", Num(5))))>>),
      Program(<<Stmt(If(Bool(TRUE), <<Stmt(Num(10))>>))>>),
      Program(<<Stmt(If(Bool(FALSE), <<Stmt(Num(10))>>))>>),
      Program(<<Stmt(If(Num(1), <<Stmt(Num(10))>>))>>),
      Program(<<Stmt(IfElse(Infix(Num(1), ">", Num(2)), <<Stmt(Num(10))>>,
                            <<Stmt(Num(20))>>))>>),
      Program(<<Stmt(IfElse(Infix(Num(1), "<", Num(2)), <<Stmt(Num(10))>>,
                            <<Stmt(Num(20))>>))>>),
      Program(<<Ret(Num(10))>>),
      Program(<<Ret(Num(10)), Stmt(Num(9))>>),
      Program(<<Stmt(Num(9)), Ret(Infix(Num(2), "*", Num(5))), Stmt(Num(9))>>),
      Program(<<Stmt(Infix(Num(5), "+", Bool(TRUE)))>>),
      Program(<<Stmt(Infix(Num(5), "+", Bool(TRUE))), Stmt(Num(5))>>),
      Program(<<Stmt(Prefix("-", Bool(TRUE)))>>),
      Program(<<Stmt(Infix(Bool(TRUE), "+", Bool(FALSE)))>>),
      Program(<<Stmt(Num(5)), Stmt(Infix(Bool(TRUE), "+", Bool(FALSE))),
                Stmt(Num(5))>>),
      Program(<<Stmt(If(Infix(Num(10), ">", Num(1)),
                        <<Stmt(Infix(Bool(TRUE), "+", Bool(FALSE)))>>))>>),
      Program(<<Stmt(If(Infix(Num(10), ">", Num(1)),
                        <<Stmt(If(Infix(Num(10), ">", Num(1)),
                                  <<Ret(Infix(Bool(TRUE), "+", Bool(FALSE)))>>)),
                          Ret(Num(1))>>))>>),
      Program(<<Stmt(Id("foobar"))>>),
      Program(<<Stmt(Infix(Id("foobar"), "+", Id("y")))>>),
      Program(<<Let("a", Num(5)), Stmt(Id("a"))>>),
      Program(<<Let("a", Infix(Num(5), "*", Num(5))), Stmt(Id("a"))>>),
      Program(<<Let("a", Num(5)), Let("b", Id("a")), Stmt(Id("b"))>>),
      Program(<<Let("a", Num(5)), Let("b", Id("a")),
                Let("c", Infix(Infix(Id("a"), "+", Id("b")), "+", Num(5))),
                Stmt(Id("c"))>>),
      Program(<<Stmt(Fn(<<"x">>, <<Stmt(Infix(Id("x"), "+", Num(2)))>>))>>),
      Program(<<Let("identity", Fn(<<"x">>, <<Stmt(Id("x"))>>)),
                Stmt(Call(Id("identity"), <<Num(5)>>))>>),
      Program(<<Let("identity", Fn(<<"x">>, <<Ret(Id("x"))>>)),
                Stmt(Call(Id("identity"), <<Num(5)>>))>>),
      Program(<<Let("add", Fn(<<"x", "y">>, <<Stmt(Infix(Id("x"), "+", Id("y")))>>)),
                Stmt(Call(Id("add"),
                          <<Infix(Num(5), "+", Num(5)),
                            Call(Id("add"), <<Num(5), Num(5)>>)>>))>>),
      Program(<<Stmt(Call(Fn(<<"x">>, <<Stmt(Id("x"))>>), <<Num(5)>>))>>),
      Program(<<Stmt(Call(Num(5), <<Id("foobar")>>))>>),
      Program(<<Stmt(Call(Num(5), <<Num(1)>>))>>),
      Program(<<Stmt(Call(Fn(<<"x", "y">>, <<Stmt(Id("y"))>>), <<Num(5)>>))>>),
      Program(<<Let("makeAdder",
                    Fn(<<"x">>, <<Stmt(Fn(<<"y">>,
                                          <<Stmt(Infix(Id("x"), "+", Id("y")))>>))>>)),
                Let("addTwo", Call(Id("makeAdder"), <<Num(2)>>)),
                Stmt(Call(Id("addTwo"), <<Num(3)>>))>>) }

\* let f = fn() { x }; let x = n; f();
LateBindingProgram(n) ==
    Program(<<Let("f", Fn(<<>>, <<Stmt(Id("x"))>>)), Let("x", Num(n)),
              Stmt(Call(Id("f"), <<>>))>>)

\* let f = fn() { f }; f();
SelfReferenceProgram ==
    Program(<<Let("f", Fn(<<>>, <<Stmt(Id("f"))>>)), Stmt(Call(Id("f"), <<>>))>>)

\* let x = a; let f = fn() { x }; let g = fn(x) { f() }; g(b);
ShadowingProgram(a, b) ==
    Program(<<Let("x", Num(a)), Let("f", Fn(<<>>, <<Stmt(Id("x"))>>)),
              Let("g", Fn(<<"x">>, <<Stmt(Call(Id("f"), <<>>))>>)),
              Stmt(Call(Id("g"), <<Num(b)>>))>>)

\* let f = fn() { x }; let g = fn(x) { f() }; g(b);
CallerOnlyProgram(b) ==
    Program(<<Let("f", Fn(<<>>, <<Stmt(Id("x"))>>)),
              Let("g", Fn(<<"x">>, <<Stmt(Call(Id("f"), <<>>))>>)),
              Stmt(Call(Id("g"), <<Num(b)>>))>>)

\* let f = fn() { return v; }; f(); w
ReturnInBodyProgram(v, w) ==
    Program(<<Let("f", Fn(<<>>, <<Ret(Num(v))>>)), Stmt(Call(Id("f"), <<>>)),
              Stmt(Num(w))>>)

\* return if (true) { return 1; };
NestedReturn == Ret(If(Bool(TRUE), <<Ret(Num(1))>>))

\* if (10 > 1) { if (10 > 1) { return 10; } return 1; }; 7;
NestedBlocksProgram ==
    Program(<<Stmt(If(Infix(Num(10), ">", Num(1)),
                      <<Stmt(If(Infix(Num(10), ">", Num(1)), <<Ret(Num(10))>>)),
                        Ret(Num(1))>>)),
              Stmt(Num(7))>>)

\* let a = 1; !(if (true) { return (if (true) { let a = true; 1 }) + a; }); 5;
SwallowedErrorProgram ==
    Program(<<Let("a", Num(1)),
              Stmt(Prefix("!",
                  If(Bool(TRUE),
                     <<Ret(Infix(If(Bool(TRUE), <<Let("a", Bool(TRUE)), Stmt(Num(1))>>),
                                 "+", Id("a")))>>))),
              Stmt(Num(5))>>)

Values == {1, 2}

ClaimPrograms ==
    { LateBindingProgram(n) : n \in Values }
    \cup { SelfReferenceProgram, NestedBlocksProgram, SwallowedErrorProgram,
           Program(<<NestedReturn>>),
           Program(<<Let("f", Fn(<<>>, <<NestedReturn>>)),
                     Stmt(Call(Id("f"), <<>>)), Stmt(Num(2))>>),
           Program(<<Stmt(If(Bool(TRUE), <<NestedReturn, Stmt(Num(7))>>)),
                     Stmt(Num(8))>>) }
    \cup { ShadowingProgram(a, b) : a \in Values, b \in Values }
    \cup { CallerOnlyProgram(b) : b \in Values }
    \cup { ReturnInBodyProgram(v, w) : v \in Values, w \in Values }

\* every program of at most MaxStatements statements of this pool
StatementPool ==
    { Stmt(Num(1)),
      Stmt(Id("x")),
      Let("x", Num(2)),
      Let("x", Infix(Bool(TRUE), "+", Num(1))),
      Ret(Id("x")),
      ReturnStatement(None),
      NestedReturn,
      Stmt(If(Id("x"), <<Ret(Num(3))>>)),
      Stmt(IfElse(Bool(FALSE), <<Stmt(Num(1))>>, <<Let("x", Num(4)), Ret(Id("x"))>>)),
      Stmt(Prefix("!", If(Bool(TRUE), <<Ret(Num(1))>>))),
      Let("f", Fn(<<>>, <<Stmt(Id("x"))>>)),
      Let("f", Fn(<<"x">>, <<Stmt(If(Id("x"), <<Ret(Num(1))>>)), Stmt(Num(0))>>)),
      Stmt(Call(Id("f"), <<>>)),
      Stmt(Call(Id("f"), <<Id("x")>>)) }

RECURSIVE SeqsUpTo(_, _)
SeqsUpTo(S, n) ==
    IF n = 0 THEN {<<>>}
    ELSE LET shorter == SeqsUpTo(S, n - 1)
         IN shorter \cup { Append(q, e) : q \in shorter, e \in S }

GeneratedPrograms == { Program(q) : q \in SeqsUpTo(StatementPool, MaxStatements) }

\* operands that yield an Error, each of another kind of node:
\* foobar, -true, 5()
ErrorOperands == {Id("foobar"), Prefix("-", Bool(TRUE)), Call(Num(5), <<>>)}

\* if (true) { let a = 1; a }
BindingOperand == If(Bool(TRUE), <<Let("a", Num(1)), Stmt(Id("a"))>>)

\* <left> + <right>;
OrderProgram(left, right) == Program(<<Stmt(Infix(left, "+", right))>>)

OrderPrograms ==
    {OrderProgram(l, r) : l \in ErrorOperands \cup {Num(1)},
                          r \in ErrorOperands \cup {Num(1)}}
    \cup {OrderProgram(BindingOperand, Id("a")), OrderProgram(Id("a"), BindingOperand)}

\* operands of every type an expression can yield: 1, 2, true, false,
\* if (false) { } (Null), if (true) { return 1; } (ReturnValue), fn() { }
\* and fn(x) { }
TypedOperands ==
    {Num(1), Num(2), Bool(TRUE), Bool(FALSE), If(Bool(FALSE), <<>>),
     If(Bool(TRUE), <<Ret(Num(1))>>), Fn(<<>>, <<>>), Fn(<<"x">>, <<>>)}

InfixOperators == {"==", "!=", "<", ">", "+", "-", "*", "/"}

\* <left> <operator> <right>;
InfixProgram(left, operator, right) == Program(<<Stmt(Infix(left, operator, right))>>)

InfixPrograms ==
    {InfixProgram(l, o, r) : l \in TypedOperands, o \in InfixOperators,
                             r \in TypedOperands}

\* callees: 5 (not a function), fn(x, y) { 7 } and nofn (unbound)
Callees == {Num(5), Fn(<<"x", "y">>, <<Stmt(Num(7))>>), Id("nofn")}

\* arguments: 3, and three that yield an Error: foobar, -true, 1 + true
ArgumentOperands ==
    {Num(3), Id("foobar"), Prefix("-", Bool(TRUE)), Infix(Num(1), "+", Bool(TRUE))}

MaxArguments == 2

\* <callee>(<arguments>);
CallProgram(callee, arguments) == Program(<<Stmt(Call(callee, arguments))>>)

CallPrograms ==
    {CallProgram(c, args) : c \in Callees,
                            args \in SeqsUpTo(ArgumentOperands, MaxArguments)}
    \cup {CallProgram(Num(5), <<BindingOperand, Id("a")>>),
          CallProgram(Num(5), <<Id("a"), BindingOperand>>),
          CallProgram(BindingOperand, <<Id("a")>>)}

\* the parameter lists (), (x), (x, y)
ParameterLists == {<<>>, <<"x">>, <<"x", "y">>}

\* let x = 7; let y = 8; fn(<parameters>) { <read> }(<arguments>);
ArityProgram(parameters, read, arguments) ==
    Program(<<Let("x", Num(7)), Let("y", Num(8)),
              Stmt(Call(Fn(parameters, <<Stmt(Id(read))>>), arguments))>>)

\* let y = 8; fn(<parameters>) { x }(<arguments>);
UnboundProgram(parameters, arguments) ==
    Program(<<Let("y", Num(8)),
              Stmt(Call(Fn(parameters, <<Stmt(Id("x"))>>), arguments))>>)

ArityPrograms ==
    {ArityProgram(ps, read, args) :
         ps \in ParameterLists, read \in {"x", "y"},
         args \in SeqsUpTo({Num(v) : v \in Values}, MaxArguments)}
    \cup {UnboundProgram(ps, args) :
              ps \in ParameterLists,
              args \in SeqsUpTo({Num(v) : v \in Values}, MaxArguments)}

\* dividends and divisors of both signs, zero and the two ends of the range
DivisionOperands == {MinInt, -7, -1, 0, 1, 2, 7, MaxInt}

\* <a> / <b>;
DivisionProgram(a, b) == InfixProgram(Num(a), "/", Num(b))

DivisionPrograms ==
    {DivisionProgram(a, b) : a \in DivisionOperands, b \in DivisionOperands}

\* conditions of every type: the TypedOperands and 0
TruthOperands == TypedOperands \cup {Num(0)}

\* !<v>;
BangProgram(v) == Program(<<Stmt(Prefix("!", v))>>)

\* if (<v>) { 10 } else { 20 };
IfElseProgram(v) == Program(<<Stmt(IfElse(v, <<Stmt(Num(10))>>, <<Stmt(Num(20))>>))>>)

\* if (<v>) { 10 };
IfProgram(v) == Program(<<Stmt(If(v, <<Stmt(Num(10))>>))>>)

TruthPrograms ==
    {BangProgram(v) : v \in TruthOperands}
    \cup {IfElseProgram(v) : v \in TruthOperands}
    \cup {IfProgram(v) : v \in TruthOperands}

\* values to return: 3, true, 1 + 2, and foobar, which yields an Error
ReturnOperands == {Num(3), Bool(TRUE), Infix(Num(1), "+", Num(2)), Id("foobar")}

\* return <e>;
ReturnProgram(e) == Program(<<Ret(e)>>)

\* if (true) { let a = a + 1; a }
CountingOperand ==
    If(Bool(TRUE), <<Let("a", Infix(Id("a"), "+", Num(1))), Stmt(Id("a"))>>)

\* let a = 0; return if (true) { let a = a + 1; a };
CountingProgram == Program(<<Let("a", Num(0)), Ret(CountingOperand)>>)

ReturnPrograms == {ReturnProgram(e) : e \in ReturnOperands} \cup {CountingProgram}

\* if (true) { return 1; }
ReturningOperand == If(Bool(TRUE), <<Ret(Num(1))>>)

\* if (true) { return (if (true) { let a = true; 1 }) + a; }: with a bound
\* to 1 the returned sum is 2 at its first evaluation and an Error at its
\* second
ReturningErrorOperand ==
    If(Bool(TRUE),
       <<Ret(Infix(If(Bool(TRUE), <<Let("a", Bool(TRUE)), Stmt(Num(1))>>),
                   "+", Id("a")))>>)

\* programs that bind what an expression yields, by a let at top level, by
\* a parameter and by a let in a function body:
\*   let x = <e>; x;     fn(x) { x }(<e>);     fn() { let z = <e>; fn() { z } }();
BindingPrograms(e) ==
    { Program(<<Let("a", Num(1)), Let("x", e), Stmt(Id("x"))>>),
      Program(<<Let("a", Num(1)), Stmt(Call(Fn(<<"x">>, <<Stmt(Id("x"))>>), <<e>>))>>),
      Program(<<Let("a", Num(1)),
                Let("g", Call(Fn(<<>>, <<Let("z", e), Stmt(Fn(<<>>, <<Stmt(Id("z"))>>))>>),
                              <<>>))>>) }

\* expressions to bind: a value, a returning if, an unbound identifier, a
\* call that returns an Error, and a returning if whose value is an Error
BoundOperands ==
    {Num(3), ReturningOperand, Id("foobar"),
     Call(Fn(<<>>, <<Ret(Id("foobar"))>>), <<>>), ReturningErrorOperand}

AllBindingPrograms == UNION {BindingPrograms(e) : e \in BoundOperands}

Programs ==
    TestPrograms \cup ClaimPrograms \cup GeneratedPrograms \cup OrderPrograms
    \cup InfixPrograms \cup CallPrograms \cup ArityPrograms \cup DivisionPrograms
    \cup TruthPrograms \cup ReturnPrograms \cup AllBindingPrograms

\* what a session may evaluate after its first program
FollowUps ==
    { Program(<<Stmt(Id("x"))>>),
      Program(<<Let("x", Num(9))>>),
      Program(<<Stmt(Call(Id("f"), <<>>))>>) }



(***************************************************************************)
(* The lexer (src/src/lexer.rs).  A &str is a string; the Peekable<Chars>  *)
(* is the string of the characters not yet taken.  read_char stores the    *)
(* character '0' in ch when the input is exhausted, and next_token reads   *)
(* a ch of '0' as the end of the input.                                    *)
(***************************************************************************)
Letters ==
    {"a", "b", "c", "d", "e", "f", "g", "h", "i", "j", "k", "l", "m",
     "n", "o", "p", "q", "r", "s", "t", "u", "v", "w", "x", "y", "z",
     "A", "B", "C", "D", "E", "F", "G", "H", "I", "J", "K", "L", "M",
     "N", "O", "P", "Q", "R", "S", "T", "U", "V", "W", "X", "Y", "Z", "_"}

Digits == {"0", "1", "2", "3", "4", "5", "6", "7", "8", "9"}

is_letter(c) == c \in Letters

is_digit(c) == c \in Digits

Lexer_new(input_string) ==
    [input |-> Tail(input_string), ch |-> Head(input_string)]

read_char(l) ==
    IF l.input = ""
    THEN [input |-> "", ch |-> "0"]
    ELSE [input |-> Tail(l.input), ch |-> Head(l.input)]

peek_char(l) == IF l.input = "" THEN "0" ELSE Head(l.input)

RECURSIVE eat_whitespace(_)
eat_whitespace(l) ==
    IF l.ch = " " \/ l.ch = "\t" \/ l.ch = "\n" \/ l.ch = "\r"
    THEN eat_whitespace(read_char(l))
    ELSE l

\* the arms of next_token's match that build a token without read_ident:
\* the token and the lexer before the trailing read_char
match_ch(l) ==
    CASE l.ch = "=" ->
             IF peek_char(l) = "="
             THEN [lexer |-> read_char(l), token |-> Token("Equal", "==")]
             ELSE [lexer |-> l, token |-> Token("Assign", l.ch)]
      [] l.ch = "+" -> [lexer |-> l, token |-> Token("Plus", l.ch)]
      [] l.ch = "-" -> [lexer |-> l, token |-> Token("Minus", l.ch)]
      [] l.ch = "!" ->
             IF peek_char(l) = "="
             THEN [lexer |-> read_char(l), token |-> Token("NotEqual", "!=")]
             ELSE [lexer |-> l, token |-> Token("Bang", l.ch)]
      [] l.ch = "*" -> [lexer |-> l, token |-> Token("Asterisk", l.ch)]
      [] l.ch = "/" -> [lexer |-> l, token |-> Token("Slash", l.ch)]
      [] l.ch = "<" -> [lexer |-> l, token |-> Token("LessThan", l.ch)]
      [] l.ch = ">" -> [lexer |-> l, token |-> Token("GreaterThan", l.ch)]
      [] l.ch = "," -> [lexer |-> l, token |-> Token("Comma", l.ch)]
      [] l.ch = ";" -> [lexer |-> l, token |-> Token("Semicolon", l.ch)]
      [] l.ch = "(" -> [lexer |-> l, token |-> Token("LParen", l.ch)]
      [] l.ch = ")" -> [lexer |-> l, token |-> Token("RParen", l.ch)]
      [] l.ch = "{" -> [lexer |-> l, token |-> Token("LBrace", l.ch)]
      [] l.ch = "}" -> [lexer |-> l, token |-> Token("RBrace", l.ch)]
      [] l.ch = "0" -> [lexer |-> l, token |-> Token("EOF", "")]
      [] OTHER      -> [lexer |-> l, token |-> Token("Illegal", l.ch)]

MatchedChars == {"=", "+", "-", "!", "*", "/", "<", ">", ",", ";", "(", ")", "{", "}", "0"}

\* which read_ident the fall-through arm of the match starts, if any
starts_read_ident(c) ==
    IF c \in MatchedChars THEN "none"
    ELSE IF is_letter(c) THEN "is_letter"
    ELSE IF is_digit(c) THEN "is_digit"
    ELSE "none"

applies(cond, c) == IF cond = "is_letter" THEN is_letter(c) ELSE is_digit(c)

(***************************************************************************)
(* A lexer run, as the loop of the lexer's test drives it: next_token is   *)
(* called until it returns EOF.  One step is one call of next_token up to  *)
(* its return or up to its call of read_ident, or one iteration of         *)
(* read_ident's loop.                                                      *)
(***************************************************************************)
MaxTextLen == 3

\* how many characters of read_ident's String the model keeps: more than
\* the text holds, so only a loop that outruns the text reaches it
MaxIdent == Len(text) + 1

LexChars == {"a", "1", "0", " ", "=", "!", ";"}

RECURSIVE StringsUpTo(_, _)
StringsUpTo(C, n) ==
    IF n = 0 THEN {""}
    ELSE LET S == StringsUpTo(C, n - 1) IN S \cup {s \o c : s \in S, c \in C}

\* the input of test_next_token, statement by statement
TestTexts ==
    { "let five = 5;",
      "let ten = 10;",
      "let add = fn(x, y) {\n    x + y;\n};",
      "let result = add(five, ten);",
      "!-/*5;",
      "5 < 10 > 5;",
      "if (5 < 10) {\n    return true;\n} else {\n    return false;\n}",
      "10 == 10;",
      "10 != 9;" }

Texts == (StringsUpTo(LexChars, MaxTextLen) \ {""}) \cup TestTexts \cup {"a\t$\r", "5", "let x = 5"}

\* next_token, from its entry to its return or to its call of read_ident
LexNextToken ==
    /\ lpc = "next_token"
    /\ LET l == eat_whitespace(lexer)
           c == starts_read_ident(l.ch)
           m == match_ch(l)
       IN IF c # "none"
          THEN /\ lexer' = l
               /\ conditional' = c
               /\ ident' = ""
               /\ lpc' = "read_ident"
               /\ tokens' = tokens
          ELSE /\ lexer' = read_char(m.lexer)
               /\ tokens' = IF m.token.t = "EOF" THEN tokens ELSE Append(tokens, m.token)
               /\ lpc' = IF m.token.t = "EOF" THEN "eof" ELSE "next_token"
               /\ UNCHANGED <<ident, conditional>>
    /\ UNCHANGED <<text, spin, evars, pvars, original>>

\* one test of read_ident's loop condition: an iteration, or the return of
\* read_ident and of the next_token that called it
LexReadIdent ==
    /\ lpc = "read_ident"
    /\ IF applies(conditional, lexer.ch)
       THEN /\ ident' = IF Len(ident) < MaxIdent THEN ident \o lexer.ch ELSE ident
            /\ lexer' = read_char(lexer)
            /\ spin' = 1 - spin
            /\ UNCHANGED <<tokens, lpc>>
       ELSE /\ tokens' = Append(tokens, IF conditional = "is_letter"
                                        THEN Token_from(ident)
                                        ELSE Token("Int", ident))
            /\ lpc' = "next_token"
            /\ UNCHANGED <<lexer, ident, spin>>
    /\ UNCHANGED <<text, conditional, evars, pvars, original>>

(***************************************************************************)
(* The parser (src/src/parser.rs).  The parser's lexer is the sequence of  *)
(* the tokens it has not returned yet; when they are used up it returns    *)
(* EOF on every call (lexer.rs: read_char keeps ch at '0').                *)
(***************************************************************************)
Lowest == 0
Equals == 1
LessGreater == 2
Sum == 3
Product == 4
PrefixPrecedence == 5
CallPrecedence == 6

NoNode == [kind |-> "None"]

Ok(node) == [ok |-> TRUE, node |-> node, err |-> ""]
Err(e) == [ok |-> FALSE, node |-> NoNode, err |-> e]
Unit == [ok |-> TRUE, node |-> NoNode, err |-> ""]

Lexer_next_token(rest) == IF rest = <<>> THEN Token("EOF", "") ELSE Head(rest)

next_token(p) ==
    [p EXCEPT !.curr_token = p.peek_token,
              !.peek_token = Lexer_next_token(p.lexer),
              !.lexer = IF p.lexer = <<>> THEN <<>> ELSE Tail(p.lexer)]

Parser_new(l) ==
    next_token(next_token([lexer |-> l,
                           curr_token |-> Token("Illegal", ""),
                           peek_token |-> Token("Illegal", ""),
                           errors |-> <<>>]))

finished(p) == p.curr_token.t = "EOF"

expect_peek(p, token_type) ==
    IF p.peek_token.t = token_type
    THEN [ok |-> TRUE, parser |-> next_token(p)]
    ELSE [ok |-> FALSE, parser |-> p]

check_curr_precedence(p) ==
    CASE p.curr_token.t \in {"Equal", "NotEqual"}        -> Equals
      [] p.curr_token.t \in {"LessThan", "GreaterThan"}  -> LessGreater
      [] p.curr_token.t \in {"Plus", "Minus"}            -> Sum
      [] p.curr_token.t \in {"Slash", "Asterisk"}        -> Product
      [] OTHER                                           -> Lowest

\* a parser in which `*` and `/` bind no tighter than `+` and `-`
check_peek_precedence_flat(p) ==
    CASE p.peek_token.t \in {"Equal", "NotEqual"}        -> Equals
      [] p.peek_token.t \in {"LessThan", "GreaterThan"}  -> LessGreater
      [] p.peek_token.t \in {"Plus", "Minus"}            -> Sum
      [] p.peek_token.t \in {"Slash", "Asterisk"}        -> Sum
      [] OTHER                                           -> Lowest

check_peek_precedence(p) ==
    CASE p.peek_token.t \in {"Equal", "NotEqual"}        -> Equals
      [] p.peek_token.t \in {"LessThan", "GreaterThan"}  -> LessGreater
      [] p.peek_token.t \in {"Plus", "Minus"}            -> Sum
      [] p.peek_token.t \in {"Slash", "Asterisk"}        -> Product
      [] OTHER                                           -> Lowest

should_keep_parsing(p) ==
    p.peek_token.t \in {"Plus", "Minus", "Slash", "Asterisk",
                        "Equal", "NotEqual", "LessThan", "GreaterThan"}

\* str::parse::<i64> on the digits of an Int token
DigitValue(c) == CHOOSE n \in 0..9 : ToString(n) = c

RECURSIVE parse_digits(_, _)
parse_digits(v, acc) ==
    IF v = "" THEN acc ELSE parse_digits(Tail(v), 10 * acc + DigitValue(Head(v)))

RECURSIVE all_digits(_)
all_digits(v) == v = "" \/ (is_digit(Head(v)) /\ all_digits(Tail(v)))

parse_integer_literal(p) ==
    IF p.curr_token.v # "" /\ all_digits(p.curr_token.v)
    THEN Ok(IntegerLiteral(parse_digits(p.curr_token.v, 0)))
    ELSE Err("IntegerParsingFailed")

parse_boolean_expression(p) == Ok(BooleanNode(p.curr_token = Token("True", "true")))

(***************************************************************************)
(* The token sequences parsed: every sequence of at most MaxTokens tokens  *)
(* over StatementTokens, every expression of at most MaxExprTokens tokens  *)
(* followed by `;`, and the inputs of the parser's tests and of the        *)
(* specification's examples.  A sequence is written as its lexemes.        *)
(***************************************************************************)
MaxTokens == 3
MaxExprTokens == 5

\* the token next_token returns for a text that is the one lexeme `w`
TokenOf(w) ==
    LET l == Lexer_new(w)
        c == starts_read_ident(l.ch)
    IN IF c = "is_letter" THEN Token_from(w)
       ELSE IF c = "is_digit" THEN Token("Int", w)
       ELSE match_ch(l).token

Lexemes(ws) == [i \in 1..Len(ws) |-> TokenOf(ws[i])]

StatementTokens ==
    {TokenOf(w) : w \in {"let", "return", "x", "5", "=", ";", "+", "(", ")", "fn", "{", "}"}}

Operands == {TokenOf("a"), TokenOf("1")}
PrefixOperators == {TokenOf("-"), TokenOf("!")}
BinaryOperators == {TokenOf(w) : w \in {"==", "!=", "<", ">", "+", "-", "*", "/"}}

\* the expressions of exactly k tokens
RECURSIVE ExpressionsOf(_)
ExpressionsOf(k) ==
    IF k = 1 THEN {<<o>> : o \in Operands}
    ELSE {<<o>> \o e : o \in PrefixOperators, e \in ExpressionsOf(k - 1)}
         \cup (IF k >= 3
               THEN {<<TokenOf("(")>> \o e \o <<TokenOf(")")>> : e \in ExpressionsOf(k - 2)}
               ELSE {})
         \cup UNION {{l \o <<o>> \o r : l \in ExpressionsOf(i), o \in BinaryOperators,
                                        r \in ExpressionsOf(k - 1 - i)} : i \in 1..(k - 2)}

Expressions == UNION {ExpressionsOf(k) : k \in 1..MaxExprTokens}

\* test_operator_precedence_parsing, without the trailing `;`
PrecedenceTable ==
    { Lexemes(<<"-", "a", "*", "b">>),
      Lexemes(<<"!", "-", "a">>),
      Lexemes(<<"a", "+", "b", "+", "c">>),
      Lexemes(<<"a", "+", "b", "-", "c">>),
      Lexemes(<<"a", "*", "b", "*", "c">>),
      Lexemes(<<"a", "*", "b", "/", "c">>),
      Lexemes(<<"a", "+", "b", "/", "c">>),
      Lexemes(<<"a", "+", "b", "*", "c", "+", "d", "/", "e", "-", "f">>),
      Lexemes(<<"5", ">", "4", "==", "3", "<", "4">>),
      Lexemes(<<"5", "<", "4", "!=", "3", ">", "4">>),
      Lexemes(<<"3", "+", "4", "*", "5", "==", "3", "*", "1", "+", "4", "*", "5">>),
      Lexemes(<<"true">>),
      Lexemes(<<"false">>),
      Lexemes(<<"3", ">", "5", "==", "false">>),
      Lexemes(<<"3", "<", "5", "==", "true">>),
      Lexemes(<<"1", "+", "(", "2", "+", "3", ")", "+", "4">>),
      Lexemes(<<"(", "5", "+", "5", ")", "*", "2">>),
      Lexemes(<<"2", "/", "(", "5", "+", "5", ")">>),
      Lexemes(<<"-", "(", "5", "+", "5", ")">>),
      Lexemes(<<"!", "(", "true", "==", "true", ")">>),
      Lexemes(<<"!", "5", "*", "5", "+", "5", "*", "5">>) }

ExpressionInputs == {e \o <<TokenOf(";")>> : e \in Expressions \cup PrecedenceTable}

LetFiveInput == Lexemes(<<"let", "5", "=", "3", ";", "x", ";">>)

TestInputs ==
    { Lexemes(<<"let", "x", "=", "5", ";", "let", "y", "=", "10", ";",
                "let", "z", "=", "838383", ";">>),
      Lexemes(<<"return", "5", ";", "return", "10", ";", "return", "993322", ";">>),
      Lexemes(<<"foobar", ";">>),
      Lexemes(<<"3", "+", "4", ";", "-", "5", "*", "5", ";">>),
      Lexemes(<<"if", "x", "<", "y", "{", "x", "}", ";">>),
      Lexemes(<<"if", "x", "<", "y", "{", "x", "}", "else", "{", "y", "}", ";">>),
      Lexemes(<<"if", "(", "x", ")", "{", "let", "y", "=", "1", ";", "return", "y", ";", "}">>),
      Lexemes(<<"function", "(", "x", ",", "y", ")", "{", "x", "+", "y", ";", "}", ";">>),
      Lexemes(<<"fn", "(", "x", ",", "y", ")", "{", "x", "+", "y", ";", "}", ";">>),
      Lexemes(<<"fn", "(", ")", "{", "}", ";">>),
      Lexemes(<<"fn", "(", "x", ")", "{", "}", ";">>),
      Lexemes(<<"fn", "(", "x", ",", "y", ")", "{", "}", ";">>),
      Lexemes(<<"fn", "(", "1", ")", "{", "}">>),
      Lexemes(<<"fn", "(", "x", ",", ")", "{", "}">>),
      Lexemes(<<"fn", "(", "x", ")", "x", "}">>),
      Lexemes(<<"fn", "(", "x">>),
      Lexemes(<<"fn", "x">>),
      Lexemes(<<"let", "x", "=", "a">>),
      Lexemes(<<"let", "x", "5", ";">>),
      Lexemes(<<"return", "a">>),
      Lexemes(<<"(", "a", "+", "b", ";">>),
      Lexemes(<<"if", "x", "x">>),
      Lexemes(<<"if", "x", "{", "x", "}", "else", "y">>),
      Lexemes(<<"if", "x", "{", "=", "}">>),
      Lexemes(<<"if", "x", "{", "x", "}", "else", "{", "=", "}">>),
      Lexemes(<<"if", "=">>),
      Lexemes(<<"-", "=">>),
      Lexemes(<<"a", "+", "=">>),
      Lexemes(<<"(", "=", ")">>),
      Lexemes(<<"fn", "(", ")", "{", "=", "}">>),
      Lexemes(<<"add", "(", "1", ",", "2", ")", ";">>),
      LetFiveInput }

RECURSIVE SeqsOfLen(_, _)
SeqsOfLen(S, n) ==
    IF n = 0 THEN {<<>>}
    ELSE {Append(q, t) : q \in SeqsOfLen(S, n - 1), t \in S}

ShortInputs == UNION {SeqsOfLen(StatementTokens, n) : n \in 0..MaxTokens}

\* call expressions, with the Program each is to parse to: the inputs of
\* test_function_application (src/src/eval.rs) and a call next to a prefix
\* and to a binary operator
CallTable ==
    { [input |-> Lexemes(<<"add", "(", "1", ",", "2", ")", ";">>),
       expected |-> <<Stmt(Call(Id("add"), <<Num(1), Num(2)>>))>>],
      [input |-> Lexemes(<<"identity", "(", "5", ")", ";">>),
       expected |-> <<Stmt(Call(Id("identity"), <<Num(5)>>))>>],
      [input |-> Lexemes(<<"add", "(", "5", "+", "5", ",", "add", "(", "5", ",", "5",
                           ")", ")", ";">>),
       expected |-> <<Stmt(Call(Id("add"),
                                <<Infix(Num(5), "+", Num(5)),
                                  Call(Id("add"), <<Num(5), Num(5)>>)>>))>>],
      [input |-> Lexemes(<<"fn", "(", "x", ")", "{", "x", ";", "}", "(", "5", ")">>),
       expected |-> <<Stmt(Call(Fn(<<"x">>, <<Stmt(Id("x"))>>), <<Num(5)>>))>>],
      [input |-> Lexemes(<<"a", "(", ")", ";">>),
       expected |-> <<Stmt(Call(Id("a"), <<>>))>>],
      [input |-> Lexemes(<<"-", "a", "(", "1", ")", ";">>),
       expected |-> <<Stmt(Prefix("-", Call(Id("a"), <<Num(1)>>)))>>],
      [input |-> Lexemes(<<"a", "+", "b", "(", "1", ")", ";">>),
       expected |-> <<Stmt(Infix(Id("a"), "+", Call(Id("b"), <<Num(1)>>)))>>],
      [input |-> Lexemes(<<"a", "(", "1", ")", "*", "b", ";">>),
       expected |-> <<Stmt(Infix(Call(Id("a"), <<Num(1)>>), "*", Id("b")))>>] }

CallInputs == {c.input : c \in CallTable}

\* function literals of the shape `fn ( <identifiers> ) { <block> }`, with
\* the parameter names each is to have (test_function_parameter_parsing)
FunctionTable ==
    { [input |-> Lexemes(<<"fn", "(", ")", "{", "}", ";">>), names |-> <<>>],
      [input |-> Lexemes(<<"fn", "(", "x", ")", "{", "}", ";">>), names |-> <<"x">>],
      [input |-> Lexemes(<<"fn", "(", "x", ",", "y", ")", "{", "}", ";">>),
       names |-> <<"x", "y">>],
      [input |-> Lexemes(<<"fn", "(", "x", ")", "{", "x", ";", "}", ";">>),
       names |-> <<"x">>] }

\* function literals of another shape: a parameter that is no identifier
\* (`fn(1) {};`, `fn(true) {};`, `fn(x, 1) {};`), parameters without comma
\* (`fn(x y) {};`), and another token where the `{` is to stand
\* (`fn(x) x y };`, `fn() ( };`)
MalformedFunctionInputs ==
    { Lexemes(<<"fn", "(", "1", ")", "{", "}", ";">>),
      Lexemes(<<"fn", "(", "true", ")", "{", "}", ";">>),
      Lexemes(<<"fn", "(", "x", ",", "1", ")", "{", "}", ";">>),
      Lexemes(<<"fn", "(", "x", "y", ")", "{", "}", ";">>),
      Lexemes(<<"fn", "(", "x", ")", "x", "y", "}", ";">>),
      Lexemes(<<"fn", "(", ")", "(", "}", ";">>),
      Lexemes(<<"fn", "(", "x", ")", ";">>) }

FunctionInputs == {f.input : f \in FunctionTable} \cup MalformedFunctionInputs

TokenInputs ==
    ShortInputs \cup ExpressionInputs \cup TestInputs \cup CallInputs
    \cup FunctionInputs

\* more parameters than the input has tokens
MaxParameters == Len(token_input) + 1

(***************************************************************************)
(* A parser run: Parser::new, then parse_program.  The recursive descent   *)
(* is run on an explicit stack of frames, innermost first; a frame holds   *)
(* where its function stands and the locals that live across its calls:   *)
(*   precedence   parse_expression's argument                              *)
(*   left         left_exp, ident, left, exp or condition                  *)
(*   consequence  parse_if_expression's consequence                        *)
(*   list         statements or parameters                                 *)
(*   operator     prefix_token.v or operator.v                             *)
(* One step runs the innermost function up to its next call of a function  *)
(* that recurses or loops, up to its return, or through one iteration of   *)
(* its loop.                                                               *)
(***************************************************************************)
Frame(pc) ==
    [pc |-> pc, precedence |-> Lowest, left |-> NoNode, consequence |-> NoNode,
     list |-> <<>>, operator |-> ""]

ExpressionFrame(precedence) == [Frame("parse_expression") EXCEPT !.precedence = precedence]

\* parse_statement: the function the current token selects
parse_statement(p) ==
    CASE p.curr_token.t = "Let"    -> Frame("parse_let_statement")
      [] p.curr_token.t = "Return" -> Frame("parse_return_statement")
      [] OTHER                     -> Frame("parse_expression_statement")

At(pc) == ppc = "parsing" /\ stack # <<>> /\ Head(stack).pc = pc

\* the innermost function moves to `pc` with locals `f`
Goto(f, pc) == stack' = <<[f EXCEPT !.pc = pc]>> \o Tail(stack)

\* the innermost function calls `callee` and will resume at `pc`
Invoke(callee, f, pc) == stack' = <<callee, [f EXCEPT !.pc = pc]>> \o Tail(stack)

\* the innermost function returns `r`
Return(r) == stack' = Tail(stack) /\ ret' = r

ParseProgram ==
    /\ At("parse_program")
    /\ IF finished(parser)
       THEN /\ stack' = <<>>
            /\ ppc' = "done"
       ELSE /\ Invoke(parse_statement(parser), Head(stack), "parse_program:push")
            /\ ppc' = ppc
    /\ UNCHANGED <<token_input, parser, ret, parsed, spin, evars, lvars, original>>

ParseProgramPush ==
    /\ At("parse_program:push")
    /\ IF ret.ok
       THEN /\ parsed' = Append(parsed, ret.node)
            /\ parser' = next_token(parser)
       ELSE /\ parsed' = parsed
            /\ parser' = next_token([parser EXCEPT !.errors = Append(@, ret.err)])
    /\ Goto(Head(stack), "parse_program")
    /\ UNCHANGED <<token_input, ret, ppc, spin, evars, lvars, original>>

ParseLetStatement ==
    /\ At("parse_let_statement")
    /\ LET e1 == expect_peek(parser, "Ident")
           ident_ == Identifier(e1.parser.curr_token)
           e2 == expect_peek(e1.parser, "Assign")
       IN IF ~e1.ok
          THEN /\ Return(Err("IdentExpected"))
               /\ parser' = e1.parser
          ELSE IF ~e2.ok
          THEN /\ Return(Err("AssignExpected"))
               /\ parser' = e2.parser
          ELSE /\ Invoke(Frame("peek_until_semicolon"),
                         [Head(stack) EXCEPT !.left = ident_], "parse_let_statement:end")
               /\ parser' = e2.parser
               /\ ret' = ret
    /\ UNCHANGED <<token_input, parsed, ppc, spin, evars, lvars, original>>

ParseLetStatementEnd ==
    /\ At("parse_let_statement:end")
    /\ Return(Ok(LetStatement(Head(stack).left, None)))
    /\ UNCHANGED <<token_input, parser, parsed, ppc, spin, evars, lvars, original>>

ParseReturnStatement ==
    /\ At("parse_return_statement")
    /\ Invoke(Frame("peek_until_semicolon"), Head(stack), "parse_return_statement:end")
    /\ UNCHANGED <<token_input, parser, ret, parsed, ppc, spin, evars, lvars, original>>

ParseReturnStatementEnd ==
    /\ At("parse_return_statement:end")
    /\ Return(Ok(ReturnStatement(None)))
    /\ UNCHANGED <<token_input, parser, parsed, ppc, spin, evars, lvars, original>>

\* one iteration of peek_until_semicolon's loop
PeekUntilSemicolon ==
    /\ At("peek_until_semicolon")
    /\ parser' = next_token(parser)
    /\ IF parser'.curr_token.t = "Semicolon"
       THEN Return(Unit)
       ELSE UNCHANGED <<stack, ret>>
    /\ spin' = 1 - spin
    /\ UNCHANGED <<token_input, parsed, ppc, evars, lvars, original>>

ParseExpressionStatement ==
    /\ At("parse_expression_statement")
    /\ Invoke(ExpressionFrame(Lowest), Head(stack), "parse_expression_statement:end")
    /\ UNCHANGED <<token_input, parser, ret, parsed, ppc, spin, evars, lvars, original>>

ParseExpressionStatementEnd ==
    /\ At("parse_expression_statement:end")
    /\ IF ~ret.ok
       THEN /\ Return(ret)
            /\ parser' = parser
       ELSE /\ Return(Ok(ExpressionStatement(Some(ret.node))))
            /\ parser' = IF parser.peek_token.t = "Semicolon"
                         THEN next_token(parser) ELSE parser
    /\ UNCHANGED <<token_input, parsed, ppc, spin, evars, lvars, original>>

\* parse_expression up to the end of the match on the current token
ParseExpression ==
    /\ At("parse_expression")
    /\ LET f == Head(stack)
           t == parser.curr_token.t
           literal == CASE t = "Ident" -> Ok(Identifier(parser.curr_token))
                        [] t = "Int"   -> parse_integer_literal(parser)
                        [] OTHER       -> parse_boolean_expression(parser)
       IN CASE t \in {"Ident", "Int", "True", "False"} ->
                   IF literal.ok
                   THEN Goto([f EXCEPT !.left = literal.node], "parse_expression:loop")
                        /\ ret' = ret
                   ELSE Return(literal)
            [] t \in {"Minus", "Bang"} ->
                   Invoke(Frame("parse_prefix_expression"), f, "parse_expression:left")
                   /\ ret' = ret
            [] t = "LParen" ->
                   Invoke(Frame("parse_grouped_expression"), f, "parse_expression:left")
                   /\ ret' = ret
            [] t = "If" ->
                   Invoke(Frame("parse_if_expression"), f, "parse_expression:left")
                   /\ ret' = ret
            [] t = "Function" ->
                   Invoke(Frame("parse_function_literal"), f, "parse_expression:left")
                   /\ ret' = ret
            [] OTHER -> Return(Err("TokenUnrecognized"))
    /\ UNCHANGED <<token_input, parser, parsed, ppc, spin, evars, lvars, original>>

\* the `?` on the match and on parse_infix_expression's result
ParseExpressionLeft ==
    /\ At("parse_expression:left")
    /\ IF ret.ok
       THEN Goto([Head(stack) EXCEPT !.left = ret.node], "parse_expression:loop")
            /\ ret' = ret
       ELSE Return(ret)
    /\ UNCHANGED <<token_input, parser, parsed, ppc, spin, evars, lvars, original>>

\* one test of the loop condition of parse_expression
ParseExpressionLoop ==
    /\ At("parse_expression:loop")
    /\ LET f == Head(stack)
       IN IF parser.peek_token.t # "Semicolon" /\ f.precedence < check_peek_precedence(parser)
          THEN IF ~should_keep_parsing(parser)
               THEN /\ Return(Ok(f.left))
                    /\ parser' = parser
               ELSE /\ parser' = next_token(parser)
                    /\ Invoke([Frame("parse_infix_expression") EXCEPT !.left = f.left],
                              f, "parse_expression:left")
                    /\ ret' = ret
          ELSE /\ Return(Ok(f.left))
               /\ parser' = parser
    /\ UNCHANGED <<token_input, parsed, ppc, spin, evars, lvars, original>>

ParsePrefixExpression ==
    /\ At("parse_prefix_expression")
    /\ parser' = next_token(parser)
    /\ Invoke(ExpressionFrame(PrefixPrecedence),
              [Head(stack) EXCEPT !.operator = parser.curr_token.v],
              "parse_prefix_expression:end")
    /\ UNCHANGED <<token_input, ret, parsed, ppc, spin, evars, lvars, original>>

ParsePrefixExpressionEnd ==
    /\ At("parse_prefix_expression:end")
    /\ Return(IF ret.ok THEN Ok(PrefixExpression(Head(stack).operator, ret.node)) ELSE ret)
    /\ UNCHANGED <<token_input, parser, parsed, ppc, spin, evars, lvars, original>>

ParseInfixExpression ==
    /\ At("parse_infix_expression")
    /\ parser' = next_token(parser)
    /\ Invoke(ExpressionFrame(check_curr_precedence(parser)),
              [Head(stack) EXCEPT !.operator = parser.curr_token.v],
              "parse_infix_expression:end")
    /\ UNCHANGED <<token_input, ret, parsed, ppc, spin, evars, lvars, original>>

ParseInfixExpressionEnd ==
    /\ At("parse_infix_expression:end")
    /\ Return(IF ret.ok
              THEN Ok(InfixExpression(Head(stack).left, Head(stack).operator, ret.node))
              ELSE ret)
    /\ UNCHANGED <<token_input, parser, parsed, ppc, spin, evars, lvars, original>>

ParseGroupedExpression ==
    /\ At("parse_grouped_expression")
    /\ parser' = next_token(parser)
    /\ Invoke(ExpressionFrame(Lowest), Head(stack), "parse_grouped_expression:end")
    /\ UNCHANGED <<token_input, ret, parsed, ppc, spin, evars, lvars, original>>

ParseGroupedExpressionEnd ==
    /\ At("parse_grouped_expression:end")
    /\ LET e == expect_peek(parser, "RParen")
       IN IF ~ret.ok
          THEN /\ Return(ret)
               /\ parser' = parser
          ELSE /\ Return(IF e.ok THEN Ok(ret.node) ELSE Err("GroupExpressionParsingFailed"))
               /\ parser' = e.parser
    /\ UNCHANGED <<token_input, parsed, ppc, spin, evars, lvars, original>>

ParseIfExpression ==
    /\ At("parse_if_expression")
    /\ parser' = next_token(parser)
    /\ Invoke(ExpressionFrame(Lowest), Head(stack), "parse_if_expression:condition")
    /\ UNCHANGED <<token_input, ret, parsed, ppc, spin, evars, lvars, original>>

ParseIfExpressionCondition ==
    /\ At("parse_if_expression:condition")
    /\ LET e == expect_peek(parser, "LBrace")
       IN IF ~ret.ok
          THEN /\ Return(ret)
               /\ parser' = parser
          ELSE IF ~e.ok
          THEN /\ Return(Err("IncorrectIfStatement"))
               /\ parser' = e.parser
          ELSE /\ Invoke(Frame("parse_block_statement"),
                         [Head(stack) EXCEPT !.left = ret.node],
                         "parse_if_expression:consequence")
               /\ parser' = e.parser
               /\ ret' = ret
    /\ UNCHANGED <<token_input, parsed, ppc, spin, evars, lvars, original>>

ParseIfExpressionConsequence ==
    /\ At("parse_if_expression:consequence")
    /\ LET f == Head(stack)
           e == expect_peek(next_token(parser), "LBrace")
       IN IF ~ret.ok
          THEN /\ Return(ret)
               /\ parser' = parser
          ELSE IF parser.peek_token.t # "Else"
          THEN /\ Return(Ok(IfExpression(f.left, ret.node, None)))
               /\ parser' = parser
          ELSE IF ~e.ok
          THEN /\ Return(Err("IncorrectIfStatement"))
               /\ parser' = e.parser
          ELSE /\ Invoke(Frame("parse_block_statement"),
                         [f EXCEPT !.consequence = ret.node],
                         "parse_if_expression:alternative")
               /\ parser' = e.parser
               /\ ret' = ret
    /\ UNCHANGED <<token_input, parsed, ppc, spin, evars, lvars, original>>

ParseIfExpressionAlternative ==
    /\ At("parse_if_expression:alternative")
    /\ Return(IF ret.ok
              THEN Ok(IfExpression(Head(stack).left, Head(stack).consequence, Some(ret.node)))
              ELSE ret)
    /\ UNCHANGED <<token_input, parser, parsed, ppc, spin, evars, lvars, original>>

ParseBlockStatement ==
    /\ At("parse_block_statement")
    /\ parser' = next_token(parser)
    /\ Goto([Head(stack) EXCEPT !.list = <<>>], "parse_block_statement:loop")
    /\ UNCHANGED <<token_input, ret, parsed, ppc, spin, evars, lvars, original>>

\* one test of the loop condition of parse_block_statement
ParseBlockStatementLoop ==
    /\ At("parse_block_statement:loop")
    /\ IF parser.curr_token.t # "RBrace" /\ parser.curr_token.t # "EOF"
       THEN /\ Invoke(parse_statement(parser), Head(stack), "parse_block_statement:push")
            /\ ret' = ret
       ELSE Return(Ok(BlockStatement(Head(stack).list)))
    /\ UNCHANGED <<token_input, parser, parsed, ppc, spin, evars, lvars, original>>

ParseBlockStatementPush ==
    /\ At("parse_block_statement:push")
    /\ IF ret.ok
       THEN /\ Goto([Head(stack) EXCEPT !.list = Append(@, ret.node)],
                    "parse_block_statement:loop")
            /\ parser' = next_token(parser)
            /\ ret' = ret
       ELSE /\ Return(ret)
            /\ parser' = parser
    /\ UNCHANGED <<token_input, parsed, ppc, spin, evars, lvars, original>>

ParseFunctionLiteral ==
    /\ At("parse_function_literal")
    /\ LET e == expect_peek(parser, "LParen")
       IN IF ~e.ok
          THEN /\ Return(Err("IncorrectFunctionDeclaration"))
               /\ parser' = e.parser
          ELSE /\ Goto([Head(stack) EXCEPT !.list = <<>>], "parse_function_literal:parameters")
               /\ parser' = next_token(e.parser)
               /\ ret' = ret
    /\ UNCHANGED <<token_input, parsed, ppc, spin, evars, lvars, original>>

\* one test of the condition of the parameter loop: an iteration, or the
\* statements after the loop up to the call of parse_block_statement.  The
\* model keeps the first MaxParameters elements of `parameters`.
ParseFunctionLiteralParameters ==
    /\ At("parse_function_literal:parameters")
    /\ LET f == Head(stack)
           q == IF parser.curr_token.t = "Comma" THEN next_token(parser) ELSE parser
           parameter == Identifier(q.curr_token)
       IN IF parser.curr_token.t # "RParen"
          THEN /\ Goto([f EXCEPT !.list = IF Len(@) < MaxParameters
                                          THEN Append(@, parameter) ELSE @],
                       "parse_function_literal:parameters")
               /\ parser' = next_token(q)
               /\ spin' = 1 - spin
          ELSE /\ Invoke(Frame("parse_block_statement"), f, "parse_function_literal:end")
               /\ parser' = next_token(parser)
               /\ spin' = spin
    /\ UNCHANGED <<token_input, ret, parsed, ppc, evars, lvars, original>>

ParseFunctionLiteralEnd ==
    /\ At("parse_function_literal:end")
    /\ Return(IF ret.ok
              THEN Ok(FunctionLiteral(Head(stack).list, ret.node))
              ELSE ret)
    /\ UNCHANGED <<token_input, parser, parsed, ppc, spin, evars, lvars, original>>

ParseNext ==
    \/ ParseProgram
    \/ ParseProgramPush
    \/ ParseLetStatement
    \/ ParseLetStatementEnd
    \/ ParseReturnStatement
    \/ ParseReturnStatementEnd
    \/ PeekUntilSemicolon
    \/ ParseExpressionStatement
    \/ ParseExpressionStatementEnd
    \/ ParseExpression
    \/ ParseExpressionLeft
    \/ ParseExpressionLoop
    \/ ParsePrefixExpression
    \/ ParsePrefixExpressionEnd
    \/ ParseInfixExpression
    \/ ParseInfixExpressionEnd
    \/ ParseGroupedExpression
    \/ ParseGroupedExpressionEnd
    \/ ParseIfExpression
    \/ ParseIfExpressionCondition
    \/ ParseIfExpressionConsequence
    \/ ParseIfExpressionAlternative
    \/ ParseBlockStatement
    \/ ParseBlockStatementLoop
    \/ ParseBlockStatementPush
    \/ ParseFunctionLiteral
    \/ ParseFunctionLiteralParameters
    \/ ParseFunctionLiteralEnd

LexNext == LexNextToken \/ LexReadIdent

\* Lexer::new on a text; the parser and the evaluator are not running
LexerInit ==
    /\ text \in Texts
    /\ lexer = Lexer_new(text)
    /\ ident = ""
    /\ conditional = "none"
    /\ tokens = <<>>
    /\ lpc = "next_token"
    /\ spin = 0
    /\ token_input = <<>>
    /\ parser = Parser_new(<<>>)
    /\ stack = <<>>
    /\ ret = Unit
    /\ parsed = <<>>
    /\ ppc = "idle"
    /\ environment = Environment_new
    /\ program = Program(<<>>)
    /\ evaluated = NULL
    /\ history = <<>>
    /\ inputs = 0
    /\ epc = "idle"
    /\ original = None

LexerSpec == LexerInit /\ [][LexNext]_vars

\* the caller's loop keeps calling next_token and a call keeps running
FairLexerSpec == LexerSpec /\ WF_vars(LexNext)

\* Parser::new on a token sequence, and the call of parse_program; the
\* lexer run and the evaluator are not running
ParserInit ==
    /\ token_input \in TokenInputs
    /\ parser = Parser_new(token_input)
    /\ stack = <<Frame("parse_program")>>
    /\ ret = Unit
    /\ parsed = <<>>
    /\ ppc = "parsing"
    /\ spin = 0
    /\ text = ""
    /\ lexer = [input |-> "", ch |-> "0"]
    /\ ident = ""
    /\ conditional = "none"
    /\ tokens = <<>>
    /\ lpc = "idle"
    /\ environment = Environment_new
    /\ program = Program(<<>>)
    /\ evaluated = NULL
    /\ history = <<>>
    /\ inputs = 0
    /\ epc = "idle"
    /\ original = None

ParserSpec == ParserInit /\ [][ParseNext]_vars

\* parse_program keeps running until it returns
FairParserSpec == ParserSpec /\ WF_vars(ParseNext)

(***************************************************************************)
(* The session (src/src/repl.rs, start): one Environment, one eval per     *)
(* input.                                                                  *)
(***************************************************************************)
EvalInit ==
    /\ environment = Environment_new
    /\ program = Program(<<>>)
    /\ evaluated = NULL
    /\ history = <<>>
    /\ inputs = 0
    /\ epc = "ready"
    /\ text = ""
    /\ lexer = [input |-> "", ch |-> "0"]
    /\ ident = ""
    /\ conditional = "none"
    /\ tokens = <<>>
    /\ lpc = "idle"
    /\ token_input = <<>>
    /\ parser = Parser_new(<<>>)
    /\ stack = <<>>
    /\ ret = Unit
    /\ parsed = <<>>
    /\ ppc = "idle"
    /\ spin = 0
    /\ original = None

\* a session that makes a new Environment for every input
EvalInput_fresh(p) ==
    /\ epc \in {"ready", "evaluated"}
    /\ inputs < MaxInputs
    /\ LET r == eval(p, Environment_new)
       IN /\ program' = p
          /\ evaluated' = r.obj
          /\ environment' = r.env
          /\ history' = r.log
          /\ epc' = IF Panicked(r) THEN "panicked" ELSE "evaluated"
    /\ inputs' = inputs + 1
    /\ UNCHANGED <<lvars, pvars, spin, original>>

EvalInput(p) ==
    /\ epc \in {"ready", "evaluated"}
    /\ inputs < MaxInputs
    /\ LET r == eval(p, environment)
       IN /\ program' = p
          /\ evaluated' = r.obj
          /\ environment' = r.env
          /\ history' = r.log
          /\ epc' = IF Panicked(r) THEN "panicked" ELSE "evaluated"
    /\ inputs' = inputs + 1
    /\ UNCHANGED <<lvars, pvars, spin, original>>

Next == \E p \in (IF inputs = 0 THEN Programs ELSE FollowUps) : EvalInput(p)

Init == EvalInit

Spec == Init /\ [][Next]_vars

(***************************************************************************)
(* From source text to value (src/src/eval.rs, test_eval; src/src/repl.rs, *)
(* start): Lexer::new on the text, Parser::new on the lexer,               *)
(* parse_program, eval of the Program in a new Environment.  The parser    *)
(* asks the lexer for one token at a time; here the lexer runs to EOF      *)
(* first and the parser reads the tokens it returned, which gives the      *)
(* same Program whenever the lexer returns EOF.  A Program that parsed     *)
(* without error can also be printed by as_string and read again.          *)
(***************************************************************************)
MaxSourceTokens == 3

SourceOperands == {TokenOf("5"), TokenOf("2"), TokenOf("true")}

\* the expressions of exactly k tokens over SourceOperands
RECURSIVE SourceExpressionsOf(_)
SourceExpressionsOf(k) ==
    IF k = 1 THEN {<<o>> : o \in SourceOperands}
    ELSE {<<o>> \o e : o \in PrefixOperators, e \in SourceExpressionsOf(k - 1)}
         \cup (IF k >= 3
               THEN {<<TokenOf("(")>> \o e \o <<TokenOf(")")>> :
                        e \in SourceExpressionsOf(k - 2)}
               ELSE {})
         \cup UNION {{l \o <<o>> \o r : l \in SourceExpressionsOf(i),
                                        o \in BinaryOperators,
                                        r \in SourceExpressionsOf(k - 1 - i)} :
                        i \in 1..(k - 2)}

SourceExpressions == UNION {SourceExpressionsOf(k) : k \in 1..MaxSourceTokens}

\* the text of a token sequence: its lexemes, one space apart
Unlex(ts) == join([i \in 1..Len(ts) |-> ts[i].v], " ")

\* let a = <expr>; a;
LetText(e) == "let a = " \o Unlex(e) \o "; a;"

\* 9; return <expr>; 9;
ReturnText(e) == "9; return " \o Unlex(e) \o "; 9;"

\* inputs of the tests of src/src/eval.rs and src/src/parser.rs
SourceTestTexts ==
    { "5", "5;", "-5;", "5 * 2 + 10;", "2 * (5 + 10);", "(1 < 2) == true;",
      "!true;", "!!5;", "foobar;",
      "if (false) { 10 };", "if (1) { 10 };",
      "if (1 > 2) { 10 } else { 20 };",
      "if x < y { x };", "if x < y { x } else { y };",
      "return 10;", "return 10; 9;", "return 2 * 5; 9;", "9; return 2 * 5; 9;",
      "if (10 > 1) { if (10 > 1) { return 10; } return 1; };",
      "5 + true; 5;", "-true;",
      "let a = 5; a;", "let a = 5 * 5; a;", "let a = 5; let b = a; b;",
      "let x = 5;", "let x 5;", "let x = 5",
      "fn(x) { x + 2; };", "fn() {};", "fn(x, y) { x + y; };",
      "let identity = fn(x) { x; }; identity(5);",
      "let add = fn(x, y) { x + y; }; add(5 + 5, add(5, 5));",
      "fn(x) { x; }(5)", "add(1, 2);" }

SourceTexts ==
    SourceTestTexts
    \cup {LetText(e) : e \in SourceExpressions}
    \cup {ReturnText(e) : e \in SourceExpressions}
    \cup {Unlex(e) \o ";" : e \in SourceExpressions}

\* Parser::new(lexer) and the call of parse_program
ParserNew ==
    /\ lpc = "eof"
    /\ ppc = "idle"
    /\ token_input' = tokens
    /\ parser' = Parser_new(tokens)
    /\ stack' = <<Frame("parse_program")>>
    /\ ret' = Unit
    /\ parsed' = <<>>
    /\ ppc' = "parsing"
    /\ UNCHANGED <<spin, evars, lvars, original>>

\* test_eval: eval(p.parse_program(), &mut environment) with the new
\* Environment
TestEval ==
    /\ ppc = "done"
    /\ epc = "idle"
    /\ original = None
    /\ LET r == eval(Program(parsed), Environment_new)
       IN /\ program' = Program(parsed)
          /\ evaluated' = r.obj
          /\ environment' = r.env
          /\ history' = r.log
          /\ epc' = IF Panicked(r) THEN "panicked" ELSE "evaluated"
    /\ inputs' = inputs + 1
    /\ UNCHANGED <<lvars, pvars, spin, original>>

\* Program::as_string on a Program that parsed without error, and
\* Lexer::new on the String
ProgramAsString ==
    /\ ppc = "done"
    /\ epc = "idle"
    /\ original = None
    /\ parser.errors = <<>>
    /\ parsed # <<>>
    /\ original' = Some(parsed)
    /\ text' = Program_as_string(parsed)
    /\ lexer' = Lexer_new(text')
    /\ ident' = ""
    /\ conditional' = "none"
    /\ tokens' = <<>>
    /\ lpc' = "next_token"
    /\ ppc' = "idle"
    /\ UNCHANGED <<token_input, parser, stack, ret, parsed, spin, evars>>

SourceNext ==
    \/ LexNextToken
    \/ LexReadIdent
    \/ ParserNew
    \/ ParseNext
    \/ TestEval
    \/ ProgramAsString

SourceInit ==
    /\ text \in SourceTexts
    /\ lexer = Lexer_new(text)
    /\ ident = ""
    /\ conditional = "none"
    /\ tokens = <<>>
    /\ lpc = "next_token"
    /\ spin = 0
    /\ token_input = <<>>
    /\ parser = Parser_new(<<>>)
    /\ stack = <<>>
    /\ ret = Unit
    /\ parsed = <<>>
    /\ ppc = "idle"
    /\ environment = Environment_new
    /\ program = Program(<<>>)
    /\ evaluated = NULL
    /\ history = <<>>
    /\ inputs = 0
    /\ epc = "idle"
    /\ original = None

SourceSpec == SourceInit /\ [][SourceNext]_vars

(***************************************************************************)
(* The environment in use (src/src/object.rs, src/src/eval/environment.rs, *)
(* src/src/eval.rs): an Environment of up to MaxScopes scopes, as a call   *)
(* builds them (create_function_env), on which set is called and in which  *)
(* statements are evaluated.  The history of a call of set is the call.    *)
(***************************************************************************)
MaxScopes == 2

Names == {"x", "y"}

Storages == UNION {[D -> {Integer(v) : v \in Values}] : D \in SUBSET Names}

\* the environments of exactly n scopes
RECURSIVE EnvironmentsOf(_)
EnvironmentsOf(n) ==
    IF n = 1 THEN {[storage |-> st, outer |-> None] : st \in Storages}
    ELSE {[storage |-> st, outer |-> Some(o)] : st \in Storages, o \in EnvironmentsOf(n - 1)}

Environments == UNION {EnvironmentsOf(n) : n \in 1..MaxScopes}

\* let x = if (true) { let y = 1; <last> };
LetWithBlock(last) ==
    Let("x", If(Bool(TRUE), <<Let("y", Num(1)), Stmt(last)>>))

\* function bodies that bind names: the parameter, a name of the caller and
\* a new name, ending in a value, a return, an Error and a function
\*   { let x = 9; let w = 9; x }      { let y = 9; return y; }
\*   { let y = 9; z }                 { let y = 9; fn() { y } }
BindingBodies ==
    { <<Let("x", Num(9)), Let("w", Num(9)), Stmt(Id("x"))>>,
      <<Let("y", Num(9)), Ret(Id("y"))>>,
      <<Let("y", Num(9)), Stmt(Id("z"))>>,
      <<Let("y", Num(9)), Stmt(Fn(<<>>, <<Stmt(Id("y"))>>))>> }

\* arguments whose evaluation changes no environment: 5, y
PlainArguments == {Num(5), Id("y")}

\* an argument whose evaluation binds y: if (true) { let y = 1; y }
BindingArgument == If(Bool(TRUE), <<Let("y", Num(1)), Stmt(Id("y"))>>)

\* fn(x) { <body> }(<argument>);
ScopeCall(body, argument) == Stmt(Call(Fn(<<"x">>, body), <<argument>>))

ScopeCalls ==
    {ScopeCall(b, a) : b \in BindingBodies, a \in PlainArguments \cup {BindingArgument}}

\* the statements evaluated: lets of a literal, of a bound or unbound
\* identifier, of an if whose block holds a let, and identifiers
ScopeNodes ==
    {Let(k, Num(v)) : k \in Names, v \in Values}
    \cup {Let(k, Id(n)) : k \in Names, n \in Names \cup {"z"}}
    \cup {LetWithBlock(Id("z")), LetWithBlock(Num(2))}
    \cup {Stmt(Id(n)) : n \in Names \cup {"z"}}
    \cup ScopeCalls

SetCall(k, v) == [ev |-> "set", k |-> k, v |-> v]

EnvironmentSet(k, v) ==
    /\ epc \in {"ready", "evaluated"}
    /\ environment' = Environment_set(environment, k, v)
    /\ history' = <<SetCall(k, v)>>
    /\ UNCHANGED <<program, evaluated, inputs, epc, lvars, pvars, spin, original>>

EnvironmentNext ==
    \/ \E k \in Names, v \in Values : EnvironmentSet(k, Integer(v))
    \/ \E p \in ScopeNodes : EvalInput(p)

EnvironmentInit ==
    /\ environment \in Environments
    /\ program = Program(<<>>)
    /\ evaluated = NULL
    /\ history = <<>>
    /\ inputs = 0
    /\ epc = "ready"
    /\ text = ""
    /\ lexer = [input |-> "", ch |-> "0"]
    /\ ident = ""
    /\ conditional = "none"
    /\ tokens = <<>>
    /\ lpc = "idle"
    /\ token_input = <<>>
    /\ parser = Parser_new(<<>>)
    /\ stack = <<>>
    /\ ret = Unit
    /\ parsed = <<>>
    /\ ppc = "idle"
    /\ spin = 0
    /\ original = None

EnvironmentSpec == EnvironmentInit /\ [][EnvironmentNext]_vars

(***************************************************************************)
(* Reading the history of one evaluation.                                  *)
(***************************************************************************)
\* the kinds of the nodes (and "apply" for a call in progress) that are
\* entered and not yet left after the first n events of h
RECURSIVE OpenAfter(_, _)
OpenAfter(h, n) ==
    IF n = 0 THEN <<>>
    ELSE LET before == OpenAfter(h, n - 1)
             e == h[n]
         IN CASE e.ev = "enter" -> Append(before, e.kind)
              [] e.ev = "apply" -> Append(before, "apply")
              [] OTHER -> SubSeq(before, 1, Len(before) - 1)

\* Program, then only if-blocks in statement position:
\* (ExpressionStatement IfExpression BlockStatement)*
RECURSIVE OnlyIfBlocks(_, _)
OnlyIfBlocks(open, i) ==
    IF i > Len(open) THEN TRUE
    ELSE /\ i + 2 <= Len(open)
         /\ open[i] = "ExpressionStatement"
         /\ open[i + 1] = "IfExpression"
         /\ open[i + 2] = "BlockStatement"
         /\ OnlyIfBlocks(open, i + 3)

\* event i is a return statement, nested in if-blocks only and at top
\* level, that has just produced its ReturnValue
ReturnInIfBlocks(h, i) ==
    /\ h[i].ev = "exit"
    /\ h[i].kind = "ReturnStatement"
    /\ h[i].obj.type = "RETURN_VALUE"
    /\ LET open == OpenAfter(h, i)
       IN /\ Len(open) >= 1
          /\ open[1] = "Program"
          /\ OnlyIfBlocks(open, 2)

YieldsError(h, i) == h[i].ev = "exit" /\ is_error(h[i].obj)

FirstError(h, i) == YieldsError(h, i) /\ \A k \in 1..(i - 1) : ~YieldsError(h, k)

(***************************************************************************)
(* C1: a Function value captures its defining environment by reference: a  *)
(* binding that a let adds to the defining scope after the function        *)
(* literal was evaluated is seen by the later calls of the function; so    *)
(* `let f = fn() { x }; let x = n; f()` yields Integer(n), and a let-bound *)
(* function that looks up its own name finds itself.                       *)
(***************************************************************************)
C1_CaptureByReference ==
    epc = "evaluated" =>
        /\ \A n \in Values : program = LateBindingProgram(n) => evaluated = Integer(n)
        /\ program = SelfReferenceProgram =>
               /\ "f" \in DOMAIN environment.storage
               /\ evaluated = environment.storage["f"]

(***************************************************************************)
(* C2: scoping is lexical: the environment of a call encloses the          *)
(* function's captured environment, never the caller's; a free identifier  *)
(* of the body resolves to the binding of the definition site also when    *)
(* the caller binds the same name to something else, and stays unbound     *)
(* when only the caller binds it.                                          *)
(***************************************************************************)
C2_LexicalScoping ==
    epc = "evaluated" =>
        /\ \A a \in Values, b \in Values :
               program = ShadowingProgram(a, b) => evaluated = Integer(a)
        /\ \A b \in Values :
               (inputs = 1 /\ program = CallerOnlyProgram(b)) =>
                   evaluated = Error("identifier not found: x")
        /\ \A i \in 1..Len(history) :
               history[i].ev = "apply" =>
                   history[i].callenv.outer = Some(history[i].fenv)

\* g(2) has been evaluated with x = 1 at the definition site: f ran inside g
C2_Witness ==
    /\ epc = "evaluated"
    /\ program = ShadowingProgram(1, 2)
    /\ evaluated = Integer(1)
    /\ \E i \in 1..Len(history) :
           /\ history[i].ev = "apply"
           /\ "x" \in DOMAIN history[i].callenv.storage
           /\ history[i].callenv.storage["x"] = Integer(2)
           /\ \E j \in (i + 1)..Len(history) :
                  /\ history[j].ev = "apply"
                  /\ Len(OpenAfter(history, j)) > Len(OpenAfter(history, i))

(***************************************************************************)
(* C3: the evaluation of a top-level program never returns a ReturnValue   *)
(* object to the caller.                                                   *)
(***************************************************************************)
C3_NoReturnValueExposed == epc = "evaluated" => evaluated.type # "RETURN_VALUE"

(***************************************************************************)
(* C4: nothing swallows an Error: the first Error that the evaluation of   *)
(* any node yields is the result of the whole program evaluation, and no   *)
(* node is entered after it.                                               *)
(***************************************************************************)
C4_ErrorReachesTop ==
    epc = "evaluated" =>
        \A i \in 1..Len(history) :
            FirstError(history, i) =>
                /\ evaluated = history[i].obj
                /\ \A j \in (i + 1)..Len(history) : history[j].ev # "enter"

(***************************************************************************)
(* C5: an early return unwinds through nested blocks: once a return        *)
(* statement nested in if-blocks at top level has produced its             *)
(* ReturnValue, no further node is entered, every enclosing block, if and  *)
(* expression statement yields that same ReturnValue, not unwrapped, and   *)
(* the program result is the value it carries.                             *)
(***************************************************************************)
C5_EarlyReturnUnwinds ==
    epc = "evaluated" =>
        \A i \in 1..Len(history) :
            ReturnInIfBlocks(history, i) =>
                /\ evaluated = history[i].obj.inner
                /\ \A j \in (i + 1)..Len(history) :
                       /\ history[j].ev = "exit"
                       /\ history[j].kind # "Program" => history[j].obj = history[i].obj

\* `if (10 > 1) { if (10 > 1) { return 10; } return 1; }; 7;` gave 10: the
\* return sat two if-blocks deep and statements followed it at every level
C5_Witness ==
    /\ epc = "evaluated"
    /\ program = NestedBlocksProgram
    /\ evaluated = Integer(10)
    /\ \E i \in 1..Len(history) :
           /\ ReturnInIfBlocks(history, i)
           /\ Len(OpenAfter(history, i)) >= 7

(***************************************************************************)
(* C6: a return executed inside a function body terminates only that      *)
(* call: the call expression evaluates to a plain value, never to a        *)
(* ReturnValue, and the caller's remaining statements are evaluated, so    *)
(* `let f = fn() { return v; }; f(); w` yields Integer(w).                 *)
(***************************************************************************)
C6_ReturnEndsOnlyTheCall ==
    epc = "evaluated" =>
        /\ \A v \in Values, w \in Values :
               program = ReturnInBodyProgram(v, w) => evaluated = Integer(w)
        /\ \A i \in 1..Len(history) :
               (history[i].ev = "exit" /\ history[i].kind = "CallExpression") =>
                   history[i].obj.type # "RETURN_VALUE"

(***************************************************************************)
(* C7: parse_program terminates on every finite token sequence that ends   *)
(* with the end-of-input token, malformed input included: every run of     *)
(* the parser reaches the return of parse_program.                         *)
(***************************************************************************)
C7_ParseProgramTerminates == <>(ppc = "done")

(***************************************************************************)
(* C8: the token stream is finite: on every non-empty source text every    *)
(* call of next_token returns, and after finitely many calls next_token    *)
(* returns the end-of-input token.                                         *)
(***************************************************************************)
C8_TokenStreamFinite == <>(lpc = "eof")

(***************************************************************************)
(* Where the parser stands in its input: the index in token_input of       *)
(* curr_token, when curr_token is not the EOF after the last token.        *)
(***************************************************************************)
CurrIndex ==
    IF parser.peek_token.t # "EOF"
    THEN Len(token_input) - Len(parser.lexer) - 1
    ELSE Len(token_input)

\* curr_token is the first token after a `;`, or the end of the input
AfterTerminator ==
    \/ parser.curr_token.t = "EOF"
    \/ /\ CurrIndex > 1
       /\ token_input[CurrIndex - 1].t = "Semicolon"

(***************************************************************************)
(* C9: when parsing a statement fails, parse_program records one error,    *)
(* adds no node, and resumes after the terminator of the failed statement, *)
(* so that no node is built from its remaining tokens; for                 *)
(* `let 5 = 3; x;` the Program holds the statement `x;` alone.             *)
(***************************************************************************)
C9_FailedStatementSkipped ==
    [][/\ (At("parse_program:push") /\ ~ret.ok) =>
              /\ Len(parser'.errors) = Len(parser.errors) + 1
              /\ parsed' = parsed
              /\ AfterTerminator'
       /\ (ppc' = "done" /\ token_input = LetFiveInput) =>
              parsed' = <<Stmt(Id("x"))>>]_vars

(***************************************************************************)
(* The reference grouping of an expression, read off the token sequence:   *)
(* the expression splits at its binary operator of lowest precedence       *)
(* outside parentheses, at the rightmost one among equals; with no such    *)
(* operator it is a prefix operator applied to the rest, a parenthesised   *)
(* expression, or an operand.                                              *)
(***************************************************************************)
Depth(e, i) ==
    Cardinality({j \in 1..(i - 1) : e[j].t = "LParen"})
        - Cardinality({j \in 1..(i - 1) : e[j].t = "RParen"})

IsBinaryAt(e, i) ==
    /\ i > 1
    /\ e[i] \in BinaryOperators
    /\ e[i - 1].t \in {"Ident", "Int", "True", "False", "RParen"}
    /\ Depth(e, i) = 0

Level(token) ==
    CASE token.t \in {"Equal", "NotEqual"}       -> Equals
      [] token.t \in {"LessThan", "GreaterThan"} -> LessGreater
      [] token.t \in {"Plus", "Minus"}           -> Sum
      [] token.t \in {"Asterisk", "Slash"}       -> Product

OperandNode(token) ==
    CASE token.t = "Ident" -> Identifier(token)
      [] token.t = "Int"   -> IntegerLiteral(parse_digits(token.v, 0))
      [] OTHER             -> BooleanNode(token.t = "True")

RECURSIVE Reference(_)
Reference(e) ==
    LET binary == {i \in 1..Len(e) : IsBinaryAt(e, i)}
        split == CHOOSE i \in binary :
                     \A j \in binary : \/ Level(e[i]) < Level(e[j])
                                       \/ Level(e[i]) = Level(e[j]) /\ j <= i
    IN IF binary # {}
       THEN InfixExpression(Reference(SubSeq(e, 1, split - 1)), e[split].v,
                            Reference(SubSeq(e, split + 1, Len(e))))
       ELSE IF e[1] \in PrefixOperators
       THEN PrefixExpression(e[1].v, Reference(Tail(e)))
       ELSE IF e[1].t = "LParen"
       THEN Reference(SubSeq(e, 2, Len(e) - 1))
       ELSE OperandNode(e[1])

(***************************************************************************)
(* C10: for every expression made of operands, prefix operators, binary    *)
(* operators and parentheses, the parser returns without error the         *)
(* reference grouping: higher precedence binds tighter, equal precedence   *)
(* associates to the left, a prefix operator binds tighter than every      *)
(* binary operator, a parenthesised expression is one operand.             *)
(***************************************************************************)
C10_PrecedenceGrouping ==
    (ppc = "done" /\ token_input \in ExpressionInputs) =>
        /\ parser.errors = <<>>
        /\ parsed = <<ExpressionStatement(
                         Some(Reference(SubSeq(token_input, 1, Len(token_input) - 1))))>>

\* `a + b * c + d / e - f;` was parsed as (((a + (b * c)) + (d / e)) - f)
C10_Witness ==
    /\ ppc = "done"
    /\ token_input = Lexemes(<<"a", "+", "b", "*", "c", "+", "d", "/", "e", "-", "f", ";">>)
    /\ parsed = <<Stmt(Infix(Infix(Infix(Id("a"), "+", Infix(Id("b"), "*", Id("c"))),
                                   "+", Infix(Id("d"), "/", Id("e"))),
                             "-", Id("f")))>>

(***************************************************************************)
(* C11: round trip: when a Program that parsed without error is printed by *)
(* as_string and the String is parsed again, the second parse ends without *)
(* error with statements structurally equal to the original ones.          *)
(***************************************************************************)
C11_RoundTrip ==
    (ppc = "done" /\ original # None) =>
        /\ parser.errors = <<>>
        /\ parsed = original[1]

(***************************************************************************)
(* The value of an expression given as tokens: the evaluation, in a new    *)
(* environment, of its reference grouping.                                 *)
(***************************************************************************)
ValueOf(e) == eval(Reference(e), Environment_new).obj

ErrorFree(e) == ValueOf(e).type \notin {"ERROR", "PANIC"}

(***************************************************************************)
(* C12: parsing and evaluating `let a = <expr>; a;` in a new environment   *)
(* yields the value of <expr>, for every <expr> that evaluates without     *)
(* error: the LetStatement keeps its initializer and the name is bound to  *)
(* its value.                                                              *)
(***************************************************************************)
C12_LetBindsInitializer ==
    epc = "evaluated" =>
        \A e \in SourceExpressions :
            (text = LetText(e) /\ ErrorFree(e)) => evaluated = ValueOf(e)

(***************************************************************************)
(* C13: parsing and evaluating `9; return <expr>; 9;` yields the value of  *)
(* <expr>, for every <expr> that evaluates without error: the              *)
(* ReturnStatement keeps its value expression, and the statements before   *)
(* and after it do not change the result.                                  *)
(***************************************************************************)
C13_ReturnYieldsValue ==
    epc = "evaluated" =>
        \A e \in SourceExpressions :
            (text = ReturnText(e) /\ ErrorFree(e)) => evaluated = ValueOf(e)

(***************************************************************************)
(* C14: a `(` that follows a parsed expression is parsed as a call: the    *)
(* parser returns without error one CallExpression whose callee is that    *)
(* expression and whose arguments are the comma-separated expressions up   *)
(* to the closing `)`, and the call binds tighter than the prefix and the  *)
(* binary operators next to it.                                            *)
(***************************************************************************)
C14_CallParsed ==
    ppc = "done" =>
        \A c \in CallTable :
            token_input = c.input =>
                /\ parser.errors = <<>>
                /\ parsed = c.expected

(***************************************************************************)
(* The steps of a run on an environment: a call of set, and the            *)
(* evaluation of one statement.                                            *)
(***************************************************************************)
SetStep(k, v) == inputs' = inputs /\ history' = <<SetCall(k, Integer(v))>>

EvalStep(p) == inputs' = inputs + 1 /\ program' = p

\* the last step evaluated p, and no set came after it
Evaluated(p) ==
    /\ epc = "evaluated"
    /\ program = p
    /\ history # <<>>
    /\ history[1].ev = "enter"

\* storage `after` is storage `before` but for the binding of k, now v
OnlyBindingChanged(before, after, k, v) ==
    /\ DOMAIN after = DOMAIN before \cup {k}
    /\ after[k] = v
    /\ \A n \in DOMAIN before \ {k} : after[n] = before[n]

(***************************************************************************)
(* C15: Environment.set and the evaluator's let binding insert or          *)
(* overwrite in the local scope only: after every set or let of a name,    *)
(* the outer chain of the environment is what it was, the local bindings   *)
(* of the other names are what they were, and the name is bound locally    *)
(* to the new value, whether only an outer scope bound it before (it is    *)
(* shadowed) or the local scope did (it is replaced).                      *)
(***************************************************************************)
C15_SetIsLocal ==
    [][\A k \in Names, v \in Values :
           (SetStep(k, v) \/ EvalStep(Let(k, Num(v)))) =>
               /\ environment'.outer = environment.outer
               /\ OnlyBindingChanged(environment.storage, environment'.storage,
                                     k, Integer(v))
               /\ Environment_get(environment', k) = Some(Integer(v))]_vars

\* set("x", 2) on an environment whose outer scope binds x to 1: the local
\* scope now binds x to 2 and the outer scope still binds it to 1
C15_Witness ==
    /\ history = <<SetCall("x", Integer(2))>>
    /\ environment.outer # None
    /\ Environment_get(environment.outer[1], "x") = Some(Integer(1))
    /\ Environment_get(environment, "x") = Some(Integer(2))

(***************************************************************************)
(* The scopes of an environment, innermost first, and the binding of a     *)
(* name in the innermost scope that binds it.                              *)
(***************************************************************************)
RECURSIVE Scopes(_)
Scopes(env) ==
    <<env.storage>> \o (IF env.outer = None THEN <<>> ELSE Scopes(env.outer[1]))

InnermostBinding(env, k) ==
    LET scopes == Scopes(env)
        binding == {i \in 1..Len(scopes) : k \in DOMAIN scopes[i]}
        innermost == CHOOSE i \in binding : \A j \in binding : i <= j
    IN IF binding = {} THEN None ELSE Some(scopes[innermost][k])

(***************************************************************************)
(* C16: Environment.get(name) returns the binding of the innermost scope   *)
(* of the chain that binds name, and None exactly when no scope binds it;  *)
(* the evaluation of an identifier yields that binding, and yields         *)
(* Error("identifier not found: <name>") when there is none.               *)
(***************************************************************************)
C16_GetInnermost ==
    \A k \in Names \cup {"z"} :
        /\ Environment_get(environment, k) = InnermostBinding(environment, k)
        /\ Evaluated(Stmt(Id(k))) =>
               evaluated = IF InnermostBinding(environment, k) = None
                           THEN Error("identifier not found: " \o k)
                           ELSE InnermostBinding(environment, k)[1]

\* `x;` was evaluated to 1 where the local scope does not bind x and the
\* outer scope binds it to 1
C16_Witness ==
    /\ Evaluated(Stmt(Id("x")))
    /\ "x" \notin DOMAIN environment.storage
    /\ environment.outer # None
    /\ "x" \in DOMAIN environment.outer[1].storage
    /\ evaluated = Integer(1)

\* the program `let x = <v>;` and the program `x;`
LetX(v) == Program(<<Let("x", Num(v))>>)

ReadX == Program(<<Stmt(Id("x"))>>)

(***************************************************************************)
(* C17: the environment persists across the eval calls of a session.  A    *)
(* program `let x = <v>;` leaves x bound to v in the session's             *)
(* environment; no evaluation removes a binding, and a program that is not *)
(* a let of x leaves the binding of x as it was; a later program `x;`      *)
(* yields the value x is bound to when it starts (eval_program delivers a  *)
(* bound ReturnValue, the matter of C27, as the value it carries); a later *)
(* `let x = 9;` replaces the binding of x and keeps every other binding.   *)
(***************************************************************************)
C17_EnvironmentPersists ==
    [][/\ \A v \in Values \cup {9} :
              EvalStep(LetX(v)) =>
                  /\ evaluated' = NULL
                  /\ OnlyBindingChanged(environment.storage, environment'.storage,
                                        "x", Integer(v))
       /\ DOMAIN environment.storage \subseteq DOMAIN environment'.storage
       /\ (EvalStep(ReadX) /\ "x" \in DOMAIN environment.storage) =>
              /\ LET bound == environment.storage["x"]
                 IN  evaluated' = IF bound.type = "RETURN_VALUE"
                                  THEN bound.inner ELSE bound
              /\ environment' = environment
       /\ \A v \in Values :
              (epc = "evaluated" /\ program = LetX(v)) =>
                  /\ EvalStep(ReadX) => evaluated' = Integer(v)
                  /\ EvalStep(LetX(9)) => Environment_get(environment', "x")
                                              = Some(Integer(9))
      ]_vars

\* the second program of a session, `x;`, yielded the 2 that the first
\* program, `let x = 2;`, bound
C17_Witness ==
    /\ inputs = 2
    /\ Evaluated(ReadX)
    /\ evaluated = Integer(2)
    /\ Environment_get(environment, "x") = Some(Integer(2))

\* the let statements of ScopeNodes, the name one binds, and the result of
\* evaluating its initializer in env
LetNodes == {p \in ScopeNodes : p.kind = "LetStatement"}

LetName(p) == ident_as_string(p.name)

Initializer(p, env) == eval(p.lvalue[1], env)

\* the step of a let statement p, where `start` is the environment the
\* statement's own effect is measured from
LetEffect(p, start) ==
    IF is_error(Initializer(p, environment).obj)
    THEN /\ evaluated' = Initializer(p, environment).obj
         /\ environment' = start
    ELSE /\ evaluated' = NULL
         /\ environment'.outer = start.outer
         /\ OnlyBindingChanged(start.storage, environment'.storage, LetName(p),
                               Initializer(p, environment).obj)

(***************************************************************************)
(* C18 as stated: a let statement whose initializer evaluates to an Error  *)
(* returns that Error and leaves the environment as it was before the      *)
(* statement; otherwise its value is Null and exactly the local binding of *)
(* its name differs from the environment before the statement.             *)
(***************************************************************************)
C18_LetLeavesEnvironment ==
    [][\A p \in LetNodes : EvalStep(p) => LetEffect(p, environment)]_vars

(***************************************************************************)
(* C18: a let statement whose initializer evaluates to an Error returns    *)
(* that Error and leaves the environment as the evaluation of the          *)
(* initializer left it, adding no binding of its own; otherwise its value  *)
(* is Null and exactly the local binding of its name differs from the      *)
(* environment the evaluation of the initializer left.                     *)
(***************************************************************************)
C18_LetAfterInitializer ==
    [][\A p \in LetNodes :
           EvalStep(p) => LetEffect(p, Initializer(p, environment).env)]_vars

\* `let x = if (true) { let y = 1; z };` returned the Error of z: x keeps
\* the binding it had and y is bound by the initializer's block
C18_Witness ==
    /\ Evaluated(LetWithBlock(Id("z")))
    /\ evaluated = Error("identifier not found: z")
    /\ Environment_get_local(environment, "x") = Some(Integer(2))
    /\ Environment_get_local(environment, "y") = Some(Integer(1))

\* the value of an operand evaluated on its own in a new Environment
OperandValue(node) == eval(node, Environment_new).obj

\* the evaluation of a node of this kind was started
Entered(kind) == \E i \in 1..Len(history) : history[i] = [ev |-> "enter", kind |-> kind]

\* the evaluation of this operand was finished
Finished(node) ==
    \E i \in 1..Len(history) : history[i] = Exit(node, OperandValue(node))

\* the first position of the history where a node of this kind was started
FirstEntered(kind) ==
    CHOOSE i \in 1..Len(history) :
        /\ history[i] = [ev |-> "enter", kind |-> kind]
        /\ \A j \in 1..(i - 1) : history[j] # [ev |-> "enter", kind |-> kind]

(***************************************************************************)
(* C19: an infix expression evaluates its right operand before its left    *)
(* operand.  When the right operand yields an Error the result is that     *)
(* Error, whatever the left operand would yield, and the left operand is   *)
(* not evaluated; when only the left operand yields an Error the right     *)
(* operand was evaluated before it; a binding made by the right operand is *)
(* seen by the left operand and not the other way round.                   *)
(***************************************************************************)
C19_RightBeforeLeft ==
    (epc = "evaluated" /\ inputs = 1) =>
        /\ \A l \in ErrorOperands \cup {Num(1)}, r \in ErrorOperands :
               program = OrderProgram(l, r) =>
                   /\ evaluated = OperandValue(r)
                   /\ l # r => ~Finished(l)
                   /\ (l \in ErrorOperands /\ l # r) => ~Entered(l.kind)
        /\ \A l \in ErrorOperands :
               program = OrderProgram(l, Num(1)) =>
                   /\ evaluated = OperandValue(l)
                   /\ Entered(l.kind) /\ Entered("IntegerLiteral")
                   /\ FirstEntered("IntegerLiteral") < FirstEntered(l.kind)
        /\ program = OrderProgram(BindingOperand, Id("a")) =>
               evaluated = Error("identifier not found: a")
        /\ program = OrderProgram(Id("a"), BindingOperand) => evaluated = Integer(2)

\* `5() + -true;` yielded the Error of -true and 5() was not evaluated
C19_Witness ==
    /\ epc = "evaluated"
    /\ inputs = 1
    /\ program = OrderProgram(Call(Num(5), <<>>), Prefix("-", Bool(TRUE)))
    /\ evaluated = Error("unknown operator: -BOOLEAN")
    /\ OperandValue(Call(Num(5), <<>>)) = Error("not a function: INTEGER")
    /\ Entered("PrefixExpression")
    /\ ~Entered("CallExpression")

\* "<LEFT> <op> <RIGHT>" over the type names of two values
TypesAround(left, operator, right) ==
    name(left) \o " " \o operator \o " " \o name(right)

(***************************************************************************)
(* C20: for an infix expression whose operand values are not both Integer, *)
(* == yields Boolean(true) exactly when the two values are the same value  *)
(* and != yields the opposite Boolean, also when the types differ; every   *)
(* other operator yields Error("type mismatch: <LEFT> <op> <RIGHT>") when  *)
(* the type names differ and Error("unknown operator: <LEFT> <op> <RIGHT>")*)
(* when they are equal.                                                    *)
(***************************************************************************)
C20_NonIntegerInfix ==
    (epc = "evaluated" /\ inputs = 1) =>
        \A l \in TypedOperands, r \in TypedOperands, o \in InfixOperators :
            LET left == OperandValue(l)
                right == OperandValue(r)
            IN (/\ program = InfixProgram(l, o, r)
                /\ ~(left.type = "INTEGER" /\ right.type = "INTEGER")) =>
                   evaluated =
                       CASE o = "==" -> Boolean(left = right)
                         [] o = "!=" -> Boolean(left # right)
                         [] name(left) # name(right) ->
                                Error("type mismatch: " \o TypesAround(left, o, right))
                         [] OTHER ->
                                Error("unknown operator: " \o TypesAround(left, o, right))

\* `1 == true;` yielded Boolean(false)
C20_Witness ==
    /\ epc = "evaluated"
    /\ inputs = 1
    /\ program = InfixProgram(Num(1), "==", Bool(TRUE))
    /\ evaluated = Boolean(FALSE)

\* the positions of the arguments that yield an Error on their own
ErrorPositions(arguments) ==
    {i \in 1..Len(arguments) : is_error(OperandValue(arguments[i]))}

\* no argument from position `from` on was evaluated, unless the same
\* expression also stands before that position
NotEvaluatedFrom(arguments, from) ==
    \A j \in from..Len(arguments) :
        (\A k \in 1..(from - 1) : arguments[k] # arguments[j]) =>
            ~Finished(arguments[j])

(***************************************************************************)
(* C21: in a call expression the callee is evaluated first and its Error   *)
(* is the result, no argument being evaluated; otherwise the arguments are *)
(* evaluated left to right up to the first that yields an Error, which is  *)
(* the result of the call whether or not the callee is a Function; "not a  *)
(* function: <TYPE>" is the result exactly when the callee is not a        *)
(* Function and every argument evaluated without error.                    *)
(***************************************************************************)
C21_CallOrder ==
    (epc = "evaluated" /\ inputs = 1) =>
        /\ \A c \in Callees, args \in SeqsUpTo(ArgumentOperands, MaxArguments) :
               program = CallProgram(c, args) =>
                   LET callee == OperandValue(c)
                       errors == ErrorPositions(args)
                       first == CHOOSE i \in errors : \A j \in errors : i <= j
                   IN CASE is_error(callee) ->
                               /\ evaluated = callee
                               /\ NotEvaluatedFrom(args, 1)
                        [] errors # {} ->
                               /\ evaluated = OperandValue(args[first])
                               /\ Finished(c)
                               /\ \A j \in 1..first : Finished(args[j])
                               /\ NotEvaluatedFrom(args, first + 1)
                        [] callee.type # "FUNCTION" ->
                               evaluated = Error("not a function: " \o name(callee))
                        [] OTHER -> evaluated = Integer(7)
        /\ program = CallProgram(Num(5), <<BindingOperand, Id("a")>>) =>
               evaluated = Error("not a function: INTEGER")
        /\ program = CallProgram(Num(5), <<Id("a"), BindingOperand>>) =>
               evaluated = Error("identifier not found: a")
        /\ program = CallProgram(BindingOperand, <<Id("a")>>) =>
               evaluated = Error("not a function: INTEGER")

\* `5(3, foobar);` yielded the Error of foobar, not "not a function"
C21_Witness ==
    /\ epc = "evaluated"
    /\ inputs = 1
    /\ program = CallProgram(Num(5), <<Num(3), Id("foobar")>>)
    /\ evaluated = Error("identifier not found: foobar")
    /\ Finished(Num(3))

\* the call environments made during the evaluation
CallEnvironments ==
    {history[i].callenv : i \in {j \in 1..Len(history) : history[j].ev = "apply"}}

\* the smaller of two numbers
Shorter(a, b) == IF a < b THEN a ELSE b

\* what the body's `read;` yields when parameters are bound to arguments up
\* to the shorter length and the rest is looked up in `captured`
PositionalLookup(parameters, arguments, read, captured) ==
    LET bound == {i \in 1..Shorter(Len(parameters), Len(arguments)) :
                      parameters[i] = read}
    IN IF bound # {}
       THEN OperandValue(arguments[CHOOSE i \in bound : TRUE])
       ELSE IF read \in DOMAIN captured
            THEN captured[read]
            ELSE Error("identifier not found: " \o read)

\* the local storage of the call environment: one binding for each position
\* up to the shorter length
PositionalStorage(storage, parameters, arguments) ==
    /\ DOMAIN storage =
           {parameters[i] : i \in 1..Shorter(Len(parameters), Len(arguments))}
    /\ \A i \in 1..Shorter(Len(parameters), Len(arguments)) :
           storage[parameters[i]] = OperandValue(arguments[i])

(***************************************************************************)
(* C22: a call whose number of arguments differs from the number of        *)
(* parameters produces no error by itself.  The call environment binds the *)
(* parameters positionally up to the shorter of the two lists and nothing  *)
(* else; a parameter without argument is looked up in the captured         *)
(* environment, and yields "identifier not found" when that does not bind  *)
(* it either.                                                              *)
(***************************************************************************)
C22_ArityNotChecked ==
    (epc = "evaluated" /\ inputs = 1) =>
        \A ps \in ParameterLists,
           args \in SeqsUpTo({Num(v) : v \in Values}, MaxArguments) :
            /\ \A read \in {"x", "y"} :
                   program = ArityProgram(ps, read, args) =>
                       /\ evaluated =
                              PositionalLookup(ps, args, read,
                                               "x" :> Integer(7) @@ "y" :> Integer(8))
                       /\ \A e \in CallEnvironments :
                              PositionalStorage(e.storage, ps, args)
                       /\ CallEnvironments # {}
            /\ program = UnboundProgram(ps, args) =>
                   /\ evaluated = PositionalLookup(ps, args, "x", "y" :> Integer(8))
                   /\ \A e \in CallEnvironments :
                          PositionalStorage(e.storage, ps, args)

\* `let x = 7; let y = 8; fn(x) { y }(1, 2);` yielded the captured 8: the
\* call environment binds x to 1 and nothing else
C22_Witness ==
    /\ epc = "evaluated"
    /\ inputs = 1
    /\ program = ArityProgram(<<"x">>, "y", <<Num(1), Num(2)>>)
    /\ evaluated = Integer(8)
    /\ \E e \in CallEnvironments : e.storage = "x" :> Integer(1)

\* q is the quotient of a by b truncated toward zero: the remainder is
\* smaller than the divisor and has the sign of the dividend
TruncatedQuotient(q, a, b) ==
    LET remainder == a - q * b
        abs(n) == IF n < 0 THEN -n ELSE n
    IN /\ abs(remainder) < abs(b)
       /\ remainder = 0 \/ (remainder < 0) = (a < 0)

\* the run of `a / b;` ended as the division rule says, where `aborts`
\* tells whether this division panics
DivisionEnded(a, b, aborts) ==
    IF aborts
    THEN epc = "panicked"
    ELSE /\ epc = "evaluated"
         /\ evaluated.type = "INTEGER"
         /\ TruncatedQuotient(evaluated.value, a, b)

(***************************************************************************)
(* C23 as stated: `a / b` on Integers aborts the evaluation with a panic   *)
(* when b = 0, and for every b # 0 yields Integer(a / b), the quotient     *)
(* truncated toward zero.                                                  *)
(***************************************************************************)
C23_DivisionByZeroOnly ==
    inputs = 1 =>
        \A a \in DivisionOperands, b \in DivisionOperands :
            program = DivisionProgram(a, b) => DivisionEnded(a, b, b = 0)

(***************************************************************************)
(* C23: `a / b` on Integers aborts the evaluation with a panic when b = 0  *)
(* and when a is the least Integer and b = -1 (the quotient does not fit); *)
(* in every other case it yields Integer(a / b), the quotient truncated    *)
(* toward zero.                                                            *)
(***************************************************************************)
C23_DivisionPanics ==
    inputs = 1 =>
        \A a \in DivisionOperands, b \in DivisionOperands :
            program = DivisionProgram(a, b) =>
                DivisionEnded(a, b, b = 0 \/ (a = MinInt /\ b = -1))

\* `7 / 0;` ended in a panic
C23_Witness ==
    /\ inputs = 1
    /\ program = DivisionProgram(7, 0)
    /\ epc = "panicked"

\* the FunctionLiteral nodes of a tree
RECURSIVE FunctionLiteralsIn(_)
RECURSIVE FunctionLiteralsInAll(_)
FunctionLiteralsInAll(nodes) ==
    UNION {FunctionLiteralsIn(nodes[i]) : i \in 1..Len(nodes)}

FunctionLiteralsIn(node) ==
    CASE node.kind = "FunctionLiteral" ->
            {node} \cup FunctionLiteralsIn(node.body)
      [] node.kind \in {"Program", "BlockStatement"} ->
            FunctionLiteralsInAll(node.statements)
      [] node.kind = "ExpressionStatement" -> FunctionLiteralsInAll(node.expression)
      [] node.kind = "LetStatement" -> FunctionLiteralsInAll(node.lvalue)
      [] node.kind = "ReturnStatement" -> FunctionLiteralsInAll(node.rvalue)
      [] node.kind = "PrefixExpression" -> FunctionLiteralsIn(node.right)
      [] node.kind = "InfixExpression" ->
            FunctionLiteralsIn(node.left) \cup FunctionLiteralsIn(node.right)
      [] node.kind = "IfExpression" ->
            FunctionLiteralsIn(node.condition)
            \cup FunctionLiteralsIn(node.consequence)
            \cup FunctionLiteralsInAll(node.alternative)
      [] node.kind = "CallExpression" ->
            FunctionLiteralsIn(node.function)
            \cup FunctionLiteralsInAll(node.arguments)
      [] OTHER -> {}

(***************************************************************************)
(* C24: a FunctionLiteral is produced only from                            *)
(* `fn ( <identifiers separated by commas> ) { <block> }`.  Every parameter *)
(* of every FunctionLiteral of a parsed Program is an identifier token; an *)
(* input of that shape parses without error to a FunctionLiteral with the  *)
(* parameters written; an input of another shape is reported as a parse    *)
(* error and the Program holds no FunctionLiteral.                         *)
(***************************************************************************)
C24_FunctionLiteralShape ==
    ppc = "done" =>
        /\ \A f \in FunctionLiteralsInAll(parsed) :
               \A i \in 1..Len(f.parameters) : f.parameters[i].token.t = "Ident"
        /\ \A f \in FunctionTable :
               token_input = f.input =>
                   /\ parser.errors = <<>>
                   /\ Len(parsed) = 1
                   /\ parsed[1].kind = "ExpressionStatement"
                   /\ parsed[1].expression # None
                   /\ parsed[1].expression[1].kind = "FunctionLiteral"
                   /\ parsed[1].expression[1].parameters
                          = [i \in 1..Len(f.names) |-> Id(f.names[i])]
        /\ token_input \in MalformedFunctionInputs =>
               /\ parser.errors # <<>>
               /\ FunctionLiteralsInAll(parsed) = {}

\* the value of `!<v>;` evaluated on its own in a new Environment
Negated(v) == eval(BangProgram(v), Environment_new).obj

(***************************************************************************)
(* C25: `!` and `if` use one truthiness table.  For every condition v that *)
(* yields no Error, `!v` is Boolean(true) exactly when v yields            *)
(* Boolean(false) or Null; `if (v) { 10 } else { 20 }` yields 20 exactly   *)
(* when `!v` is Boolean(true), and 10 otherwise; `if (v) { 10 }` yields    *)
(* Null when `!v` is Boolean(true).                                        *)
(***************************************************************************)
C25_OneTruthiness ==
    (epc = "evaluated" /\ inputs = 1) =>
        \A v \in TruthOperands :
            /\ program = BangProgram(v) =>
                   evaluated = Boolean(OperandValue(v) \in {FALSE_OBJ, NULL})
            /\ program = IfElseProgram(v) =>
                   evaluated = IF Negated(v) = TRUE_OBJ THEN Integer(20) ELSE Integer(10)
            /\ program = IfProgram(v) =>
                   evaluated = IF Negated(v) = TRUE_OBJ THEN NULL ELSE Integer(10)

\* `if (0) { 10 } else { 20 };` yielded 10, and `!0` is Boolean(false)
C25_Witness ==
    /\ epc = "evaluated"
    /\ inputs = 1
    /\ program = IfElseProgram(Num(0))
    /\ evaluated = Integer(10)
    /\ Negated(Num(0)) = FALSE_OBJ

\* how many times the evaluation of this operand was finished
TimesFinished(node) ==
    Cardinality({i \in 1..Len(history) : history[i] = Exit(node, OperandValue(node))})

(***************************************************************************)
(* C26: a ReturnStatement evaluates its value expression exactly once and  *)
(* wraps that one result in ReturnValue, and returns an Error unwrapped.   *)
(* `return <e>;` finishes the evaluation of e once and the program yields  *)
(* the value of e; `let a = 0; return if (true) { let a = a + 1; a };`     *)
(* yields 1 and leaves a bound to 1.                                       *)
(***************************************************************************)
C26_ReturnEvaluatesOnce ==
    (epc = "evaluated" /\ inputs = 1) =>
        /\ \A e \in ReturnOperands :
               program = ReturnProgram(e) =>
                   /\ evaluated = OperandValue(e)
                   /\ TimesFinished(e) = 1
        /\ program = CountingProgram =>
               /\ evaluated = Integer(1)
               /\ Environment_get(environment, "a") = Some(Integer(1))

\* every Object bound in an environment: in its local storage, in its outer
\* chain and in the environments captured by the functions bound there
RECURSIVE BoundObjects(_)
BoundObjects(env) ==
    LET local == {env.storage[n] : n \in DOMAIN env.storage}
    IN local
       \cup (IF env.outer = None THEN {} ELSE BoundObjects(env.outer[1]))
       \cup UNION {BoundObjects(f.env) : f \in {o \in local : o.type = "FUNCTION"}}

\* the environments of the evaluation: the session's, and every call
\* environment as it was made and as the body left it
EvaluationEnvironments ==
    {environment}
    \cup {history[i].callenv :
              i \in {j \in 1..Len(history) : history[j].ev \in {"apply", "applied"}}}

AllBoundObjects == UNION {BoundObjects(e) : e \in EvaluationEnvironments}

(***************************************************************************)
(* C27: no binding of any environment, made by a let or by the binding of  *)
(* a parameter, holds a ReturnValue.                                       *)
(***************************************************************************)
C27_NoReturnValueBound == \A o \in AllBoundObjects : o.type # "RETURN_VALUE"

(***************************************************************************)
(* C28: no binding of any environment, made by a let or by the binding of  *)
(* a parameter, holds an Error: the Object bound is never of the Error     *)
(* variant.  (A binding that holds a ReturnValue is the matter of C27,     *)
(* whatever the ReturnValue carries.)                                      *)
(***************************************************************************)
C28_NoErrorBound == \A o \in AllBoundObjects : o.type # "ERROR"

\* `fn(x, y) { 7 }(3, foobar);` yielded the Error of foobar and the call was
\* not made: no call environment exists
C28_Witness ==
    /\ epc = "evaluated"
    /\ inputs = 1
    /\ program = CallProgram(Fn(<<"x", "y">>, <<Stmt(Num(7))>>), <<Num(3), Id("foobar")>>)
    /\ evaluated = Error("identifier not found: foobar")
    /\ EvaluationEnvironments = {environment}
    /\ Finished(Num(3))

\* the caller's environment as the evaluation of the argument of a
\* ScopeCall leaves it (the callee is a function literal)
AfterArgument(argument, env) == eval(argument, env).env

(***************************************************************************)
(* C29 as stated: after a call expression has returned the caller's        *)
(* environment, local bindings and outer chain, is equal to what it was    *)
(* before the call.                                                        *)
(***************************************************************************)
C29_CallerUnchanged ==
    [][\A b \in BindingBodies, a \in PlainArguments \cup {BindingArgument} :
           EvalStep(ScopeCall(b, a)) => environment' = environment]_vars

(***************************************************************************)
(* C29: applying a function leaves the caller's environment unchanged:     *)
(* the parameters and the lets of the body are bound in the call           *)
(* environment only.  After a call expression has returned the caller's    *)
(* environment is equal to what the evaluation of the arguments left,      *)
(* which is what it was before the call when the arguments bind nothing.   *)
(***************************************************************************)
C29_ApplyLeavesCaller ==
    [][\A b \in BindingBodies :
           /\ \A a \in PlainArguments :
                  EvalStep(ScopeCall(b, a)) => environment' = environment
           /\ EvalStep(ScopeCall(b, BindingArgument)) =>
                  environment' = AfterArgument(BindingArgument, environment)]_vars

\* `fn(x) { let x = 9; let w = 9; x }(5);` yielded 9 where the caller binds
\* x to 1: the call environment ended with x and w bound to 9, and the
\* caller's x is 1 and w is unbound
C29_Witness ==
    /\ Evaluated(ScopeCall(<<Let("x", Num(9)), Let("w", Num(9)), Stmt(Id("x"))>>, Num(5)))
    /\ evaluated = Integer(9)
    /\ Environment_get(environment, "x") = Some(Integer(1))
    /\ Environment_get(environment, "w") = None
    /\ \E i \in 1..Len(history) :
           /\ history[i].ev = "applied"
           /\ history[i].callenv.storage = "x" :> Integer(9) @@ "w" :> Integer(9)

\* a text without its whitespace
RECURSIVE Squeezed(_)
Squeezed(s) ==
    IF s = "" THEN ""
    ELSE IF Head(s) \in {" ", "\t", "\n", "\r"}
         THEN Squeezed(Tail(s))
         ELSE Head(s) \o Squeezed(Tail(s))

\* the literals of a token sequence, one after the other
RECURSIVE Spelled(_)
Spelled(ts) == IF ts = <<>> THEN "" ELSE Head(ts).v \o Spelled(Tail(ts))

(***************************************************************************)
(* C30: the lexer returns EOF only when every character of the text has    *)
(* been consumed, and the digits of an integer token are the digits of the *)
(* text: when EOF is returned, the literals of the tokens returned before  *)
(* it spell the text without its whitespace; a `0` of the text is part of  *)
(* an integer token.                                                       *)
(***************************************************************************)
C30_EofAtEndOnly == lpc = "eof" => Spelled(tokens) = Squeezed(text)

====
